---- MODULE Spec2Model ----
(***************************************************************************)
(* A model of the data pipeline of fairdiplomacy/data/dataset.py: the      *)
(* Dataset index (preprocess, __getitem__, __len__, from_merge) and the    *)
(* order encoder (encode_power_actions).                                   *)
(*                                                                         *)
(* Python values are modelled as follows.  A tensor of longs is a sequence *)
(* of integers, read with the 0-based At.  A field that holds None holds   *)
(* NoneArray, NoneStore or NoneNum.  The columnar storage encoded_games is *)
(* a sequence with one row per stored turn; a row names the match and the  *)
(* turn it was encoded from and carries the turn's valid_power_idxs mask   *)
(* (the set of player indices whose entry is true).  The label array       *)
(* y_actions[row][power][sample] is the tuple Label(row, power, sample),   *)
(* so two different stored labels are different values.                    *)
(***************************************************************************)
EXTENDS Integers, Sequences, FiniteSets, TLC

VARIABLES
    self,                 \* the Dataset object under construction and use
    pc,                   \* the line preprocess() has reached ("idle": no call is running)
    encoded_game_tuples,  \* preprocess() local: what mp_encode_games returned last
    ret,                  \* the call the caller made last and what it gave, until
                          \* the caller drops the result
    datasets,             \* the shards handed to Dataset.from_merge
    merged,               \* the dataset from_merge returned
    turn,                 \* encode_phase: the turn's position as the player sees it
    power_orders,         \* encode_phase: the orders the player's record holds
    inputs,               \* encode_phase: the player's candidate table
    labels,               \* encode_phase: what encode_power_actions returned
    lookup_orders,        \* the order strings a caller hands to the vocabulary lookups
    lookup_out,           \* the lookup the caller made and what it gave
    score_game,           \* encode_weighted_sos_scores: the match, the turn and the decay
    score_out,            \* encode_weighted_sos_scores: what it computed
    phase_game,           \* encode_phase for all players: the turn and the arguments
    phase_out,            \* encode_phase for all players: the labels and the mask
    exp_dir,              \* heyhi: the experiment folder, its job-id file and its result file
    squeue,               \* heyhi: whether the job of the job-id file is in the Slurm queue
    slurm_cache,          \* heyhi: _SLURM_CACHE, the queue as this process read it
    hd,                   \* heyhi: the call of handle_dst
    reader                \* the index tensor a caller passes to __getitem__, and its calls

\* the variables of encode_phase
encoder == <<turn, power_orders, inputs, labels>>

\* the variables of the vocabulary lookups
resolver == <<lookup_orders, lookup_out>>

\* the variables of encode_weighted_sos_scores
scorer == <<score_game, score_out>>

\* the variables of encode_phase for all players
phaser == <<phase_game, phase_out>>

\* the variables of heyhi
launcher == <<exp_dir, squeue, slurm_cache, hd>>

\* the variables of the other parts of the program
rest == <<resolver, scorer, phaser, launcher, reader>>

vars == <<self, pc, encoded_game_tuples, ret, datasets, merged, encoder, rest>>

----------------------------------------------------------------------------
(* Bounds of the model and constants of the program *)

\* len(POWERS)
NumPowers == 7
\* the most matches a Dataset is constructed with
MaxGames == 2
\* the most turns a recorded match has
MaxTurns == 2

POWERS == 0 .. (NumPowers - 1)

\* The valid_power_idxs masks encode_phase can produce for a turn, as the set
\* of players whose entry is true: nobody, or players 2 and 6.
ValidMasks == {{}, {2, 6}}

\* n_cf_agent_samples a Dataset is constructed with
CfSamples == {1, 2}

----------------------------------------------------------------------------
(* Python values *)

NoneNum == -1
NoneArray == <<-1>>
NoneStore == <<[gid |-> -1, phase |-> -1, valid |-> {}]>>

\* s[i] of Python for 0 <= i < len(s)
At(s, i) == s[i + 1]

Min(S) == CHOOSE x \in S : \A y \in S : x <= y

\* the elements of a set of integers in ascending order (Tensor.nonzero())
RECURSIVE Ascending(_)
Ascending(S) == IF S = {} THEN <<>> ELSE <<Min(S)>> \o Ascending(S \ {Min(S)})

RECURSIVE Flatten(_)
Flatten(ss) == IF ss = <<>> THEN <<>> ELSE Head(ss) \o Flatten(Tail(ss))

RECURSIVE SumSeq(_)
SumSeq(s) == IF s = <<>> THEN 0 ELSE Head(s) + SumSeq(Tail(s))

----------------------------------------------------------------------------
(* encode_game: one per-match encoding task *)

\* The turns of a recorded match, as the valid_power_idxs mask encode_phase
\* gives each turn (a match has at least one turn).
GameShapes == UNION {[1 .. n -> ValidMasks] : n \in 1 .. MaxTurns}

\* What open() and Game.from_json find at a match's path: a match, or the
\* exception they raise.
CaughtErrors == {"FileNotFoundError", "JSONDecodeError"}
OtherErrors == {"PermissionError"}
Files ==
    [kind : {"ok"}, turns : GameShapes]
        \cup [kind : CaughtErrors \cup OtherErrors, turns : {<<>>}]

\* The second component of encode_game's result when the match is absent.
NoneG == NoneStore

\* DataFields.cat: columnar bundles concatenated along the turn axis
Cat(bundles) == Flatten(bundles)

\* g["valid_power_idxs"]: the mask column of a bundle
valid_power_idxs(g) == [j \in DOMAIN g |-> g[j].valid]

\* encode_game lets the exception out: an exception its except clause does
\* not name.
encode_game_raises(file) == file.kind # "ok" /\ file.kind \notin CaughtErrors

\* encode_phase, as far as the index reads its result: the one-turn bundle
\* of turn phase_idx of the match, with the turn's mask
encode_phase(game_id, phase_idx, mask) ==
    <<[gid |-> game_id, phase |-> phase_idx, valid |-> mask]>>

\* encode_game's result (game_id, stacked_encodings), or (None, None)
encode_game(game_id, file) ==
    IF file.kind \in CaughtErrors
    THEN [g_id |-> NoneNum, g |-> NoneG]
    ELSE [g_id |-> game_id,
          g |-> Cat([p \in 1 .. Len(file.turns) |->
                        encode_phase(game_id, p - 1, file.turns[p])])]

\* Dataset.mp_encode_games: encode_game mapped over self.game_ids
mp_encode_games(ds, files) ==
    [k \in 1 .. Len(ds.game_ids) |-> encode_game(ds.game_ids[k], files[k])]

----------------------------------------------------------------------------
(* class Dataset *)

\* Dataset.__init__
Dataset(game_ids, n_cf_agent_samples) ==
    [game_ids |-> game_ids,
     n_cf_agent_samples |-> n_cf_agent_samples,
     game_idxs |-> NoneArray,
     phase_idxs |-> NoneArray,
     power_idxs |-> NoneArray,
     x_idxs |-> NoneArray,
     encoded_games |-> NoneStore,
     num_games |-> NoneNum,
     num_phases |-> NoneNum,
     num_elements |-> NoneNum,
     preprocessed |-> FALSE]

\* g["valid_power_idxs"][0].any()
FirstPhaseAny(g) == At(valid_power_idxs(g), 0) # {}

\* preprocess, lines 112-118: the local encoded_games
EncodedGames(tuples) ==
    LET loaded == SelectSeq([j \in DOMAIN tuples |-> tuples[j].g], LAMBDA g : g # NoneG)
    IN  SelectSeq(loaded, FirstPhaseAny)

\* lines 122-126 without the test of the first turn: the ids of the matches
\* that loaded
KeptGameIds_loaded(tuples) ==
    LET kept == SelectSeq(tuples, LAMBDA t : t.g_id # NoneNum)
    IN  [j \in DOMAIN kept |-> kept[j].g_id]

\* preprocess, lines 122-126: the new self.game_ids
KeptGameIds(tuples) ==
    LET kept == SelectSeq(tuples,
                          LAMBDA t : t.g_id # NoneNum /\ FirstPhaseAny(t.g))
    IN  [j \in DOMAIN kept |-> kept[j].g_id]

\* preprocess, lines 136-140: the rows one turn appends
PhaseRows(game_idx, phase_idx, mask, x_idx) ==
    LET powers == Ascending(mask)
    IN  [j \in DOMAIN powers |-> [game_idx |-> game_idx, phase_idx |-> phase_idx,
                                   power_idx |-> powers[j], x_idx |-> x_idx]]

\* preprocess, lines 131-141: the rows one match appends, x_idx advancing by
\* one per turn
GameRows(game_idx, g, x_idx) ==
    Flatten([p \in 1 .. Len(g) |->
                PhaseRows(game_idx, p - 1, valid_power_idxs(g)[p], x_idx + p - 1)])

\* lines 131-141 with line 141 inside the loop of line 136: x_idx advances
\* by one per appended row
GameRows_per_row(game_idx, g, x_idx) ==
    LET rows == GameRows(game_idx, g, 0)
    IN  [j \in DOMAIN rows |-> [rows[j] EXCEPT !.x_idx = x_idx + j - 1]]

\* lines 128-141 with line 141 inside the loop of line 136
RECURSIVE IndexRows_per_row(_, _, _)
IndexRows_per_row(encoded_games, game_idx, x_idx) ==
    IF game_idx >= Len(encoded_games)
    THEN <<>>
    ELSE LET rows == GameRows_per_row(game_idx, At(encoded_games, game_idx), x_idx)
         IN  rows \o IndexRows_per_row(encoded_games, game_idx + 1, x_idx + Len(rows))

\* preprocess, lines 128-141: the loop over enumerate(encoded_games)
RECURSIVE IndexRows(_, _, _)
IndexRows(encoded_games, game_idx, x_idx) ==
    IF game_idx >= Len(encoded_games)
    THEN <<>>
    ELSE LET g == At(encoded_games, game_idx)
         IN  GameRows(game_idx, g, x_idx)
                 \o IndexRows(encoded_games, game_idx + 1,
                              x_idx + Len(g))

\* y_actions[x_idx][power_idx][sample] of the columnar storage
Label(row, power_idx, sample) == <<row.gid, row.phase, power_idx, sample>>

\* preprocess, the assignments to self in program order
L122(ds, tuples) == [ds EXCEPT !.game_ids = KeptGameIds(tuples)]
L143(ds, tuples) ==
    [ds EXCEPT !.game_idxs =
        LET rows == IndexRows(EncodedGames(tuples), 0, 0)
        IN  [j \in DOMAIN rows |-> rows[j].game_idx]]
L144(ds, tuples) ==
    [ds EXCEPT !.phase_idxs =
        LET rows == IndexRows(EncodedGames(tuples), 0, 0)
        IN  [j \in DOMAIN rows |-> rows[j].phase_idx]]
L145(ds, tuples) ==
    [ds EXCEPT !.power_idxs =
        LET rows == IndexRows(EncodedGames(tuples), 0, 0)
        IN  [j \in DOMAIN rows |-> rows[j].power_idx]]
L146(ds, tuples) ==
    [ds EXCEPT !.x_idxs =
        LET rows == IndexRows(EncodedGames(tuples), 0, 0)
        IN  [j \in DOMAIN rows |-> rows[j].x_idx]]
L149(ds, tuples) == [ds EXCEPT !.encoded_games = Cat(EncodedGames(tuples))]
L151(ds, tuples) == [ds EXCEPT !.num_games = Len(EncodedGames(tuples))]
L152(ds) == [ds EXCEPT !.num_phases = Len(ds.encoded_games)]
L153(ds) == [ds EXCEPT !.num_elements = Len(ds.x_idxs)]
L157(ds) == [ds EXCEPT !.preprocessed = TRUE]

\* Dataset.validate_dataset: every column has one entry per stored turn
validate_dataset(ds) == Len(ds.encoded_games) = ds.num_phases

\* Dataset.preprocess from line 112 to its return, given what
\* mp_encode_games returned
preprocess(ds, tuples) ==
    L157(L153(L152(L151(L149(L146(L145(L144(L143(L122(ds, tuples),
        tuples), tuples), tuples), tuples), tuples), tuples))))

\* Dataset.__len__ (num_elements is None before the first build)
len(ds) == ds.num_elements * ds.n_cf_agent_samples

\* What a call gives back: an exception, an example, or a number.
Raised(e) == [err |-> e, gid |-> -1, phase |-> -1, power |-> -1,
              y_actions |-> <<>>, value |-> -1]
Example(row, power_idx, sample) ==
    [err |-> "none", gid |-> row.gid, phase |-> row.phase, power |-> power_idx,
     y_actions |-> Label(row, power_idx, sample), value |-> -1]
Number(v) == [err |-> "none", gid |-> -1, phase |-> -1, power |-> -1,
              y_actions |-> <<>>, value |-> v]

\* Dataset.__len__ as a call: None * int raises TypeError
len_call(ds) ==
    IF ds.num_elements = NoneNum THEN Raised("TypeError") ELSE Number(len(ds))

\* t[idx] of torch for an index tensor of one element: a negative index
\* counts from the end, an index outside -len(t) .. len(t)-1 has no element
InRange(t, idx) == -Len(t) <= idx /\ idx < Len(t)
Wrap(t, idx) == IF idx < 0 THEN At(t, idx + Len(t)) ELSE At(t, idx)

\* getitem with the roles of idx % n and idx // n exchanged
getitem_swapped(ds, idx) ==
    IF ~ds.preprocessed THEN Raised("AssertionError")
    ELSE IF ~(idx < len(ds)) THEN Raised("AssertionError")
    ELSE LET sample_idxs == idx \div ds.n_cf_agent_samples
             row == idx % ds.n_cf_agent_samples
         IN  IF ~InRange(ds.x_idxs, row) \/ ~InRange(ds.power_idxs, row)
             THEN Raised("IndexError")
             ELSE LET x_idx == Wrap(ds.x_idxs, row)
                      power_idx == Wrap(ds.power_idxs, row)
                  IN  IF ~InRange(ds.encoded_games, x_idx)
                      THEN Raised("IndexError")
                      ELSE Example(Wrap(ds.encoded_games, x_idx), power_idx,
                                   sample_idxs)

\* Dataset.__getitem__ for an integer idx
getitem(ds, idx) ==
    IF ~ds.preprocessed THEN Raised("AssertionError")
    ELSE IF ~(idx < len(ds)) THEN Raised("AssertionError")
    ELSE LET sample_idxs == idx % ds.n_cf_agent_samples
             row == idx \div ds.n_cf_agent_samples
         IN  IF ~InRange(ds.x_idxs, row) \/ ~InRange(ds.power_idxs, row)
             THEN Raised("IndexError")
             ELSE LET x_idx == Wrap(ds.x_idxs, row)
                      power_idx == Wrap(ds.power_idxs, row)
                  IN  IF ~InRange(ds.encoded_games, x_idx)
                      THEN Raised("IndexError")
                      ELSE Example(Wrap(ds.encoded_games, x_idx), power_idx,
                                   sample_idxs)

----------------------------------------------------------------------------
(* Dataset.from_merge *)

\* np.cumsum
CumSum(s) == [k \in 1 .. Len(s) |-> SumSeq(SubSeq(s, 1, k))]

\* s[:-1]
AllButLast(s) == SubSeq(s, 1, Len(s) - 1)

\* t + off for a tensor t
Shifted(t, off) == [j \in DOMAIN t |-> t[j] + off]

\* from_merge with the loop of lines 231-235 looking at the first shard only
from_merge_raises_first(ds) ==
    Head(ds).n_cf_agent_samples # 1 \/ ~Head(ds).preprocessed

\* from_merge, lines 231-235: some shard makes the loop raise
\* NotImplementedError
from_merge_raises(ds) ==
    \E k \in DOMAIN ds : ds[k].n_cf_agent_samples # 1 \/ ~ds[k].preprocessed

\* from_merge with x_idxs concatenated without its offsets
from_merge_unshifted(ds) ==
    LET game_offsets == CumSum(<<0>> \o AllButLast([j \in DOMAIN ds |-> ds[j].num_games]))
    IN  [game_ids |-> Flatten([j \in DOMAIN ds |-> ds[j].game_ids]),
         n_cf_agent_samples |-> 1,
         game_idxs |-> Flatten([k \in DOMAIN ds |->
                                   Shifted(ds[k].game_idxs, game_offsets[k])]),
         phase_idxs |-> Flatten([j \in DOMAIN ds |-> ds[j].phase_idxs]),
         power_idxs |-> Flatten([j \in DOMAIN ds |-> ds[j].power_idxs]),
         x_idxs |-> Flatten([j \in DOMAIN ds |-> ds[j].x_idxs]),
         encoded_games |-> Cat([j \in DOMAIN ds |-> ds[j].encoded_games]),
         num_games |-> SumSeq([j \in DOMAIN ds |-> ds[j].num_games]),
         num_phases |-> SumSeq([j \in DOMAIN ds |-> ds[j].num_phases]),
         num_elements |-> SumSeq([j \in DOMAIN ds |-> ds[j].num_elements]),
         preprocessed |-> TRUE]

\* from_merge, lines 237-259: the merged dataset
from_merge(ds) ==
    LET game_offsets == CumSum(<<0>> \o AllButLast([j \in DOMAIN ds |-> ds[j].num_games]))
        phase_offsets == CumSum(<<0>> \o AllButLast([j \in DOMAIN ds |-> ds[j].num_phases]))
    IN  [Dataset(Flatten([j \in DOMAIN ds |-> ds[j].game_ids]), 1) EXCEPT
            !.game_idxs = Flatten([k \in DOMAIN ds |->
                                      Shifted(ds[k].game_idxs, game_offsets[k])]),
            !.phase_idxs = Flatten([j \in DOMAIN ds |-> ds[j].phase_idxs]),
            !.power_idxs = Flatten([j \in DOMAIN ds |-> ds[j].power_idxs]),
            !.x_idxs = Flatten([k \in DOMAIN ds |->
                                   Shifted(ds[k].x_idxs, phase_offsets[k])]),
            !.encoded_games = Cat([j \in DOMAIN ds |-> ds[j].encoded_games]),
            !.num_games = SumSeq([j \in DOMAIN ds |-> ds[j].num_games]),
            !.num_phases = SumSeq([j \in DOMAIN ds |-> ds[j].num_phases]),
            !.num_elements = SumSeq([j \in DOMAIN ds |-> ds[j].num_elements]),
            !.preprocessed = TRUE]

----------------------------------------------------------------------------
(* The Dataset under construction and use *)

NoCall == [op |-> "none", idx |-> 0, out |-> Number(-1)]

\* no Dataset object
NoDataset == Dataset(<<>>, NoneNum)

\* encode_phase has not been called
NoTurn == [listed |-> FALSE, kind |-> "M", all_orderable_locations |-> <<>>, n_builds |-> 0]
NoInputs == [err |-> "not called", all_order_idxs |-> <<>>, loc_idxs |-> <<>>, n |-> 0]
NoLabels == [err |-> "not called", y_actions |-> <<>>, valid |-> FALSE]
NoEncoder ==
    /\ turn = NoTurn
    /\ power_orders = <<>>
    /\ inputs = NoInputs
    /\ labels = NoLabels

\* no Dataset is under construction, use or merge
NoDatasets ==
    /\ self = NoDataset
    /\ pc = "idle"
    /\ encoded_game_tuples = <<>>
    /\ ret = NoCall
    /\ datasets = <<>>
    /\ merged = NoDataset

\* no vocabulary lookup has been made
NoLookupOut == [op |-> "none", order |-> <<>>, idx |-> -1, orders |-> <<>>, idxs |-> <<>>]
NoLookup ==
    /\ lookup_orders = <<>>
    /\ lookup_out = NoLookupOut

\* encode_weighted_sos_scores has not been called
NoScoreGame == [phases |-> <<>>, phase_idx |-> 0, value_decay_alpha |-> 0, final |-> <<>>]
NoScoreOut == [branch |-> "not called", weights |-> <<>>, remaining |-> 0, y_final_scores |-> <<>>]
NoScores ==
    /\ score_game = NoScoreGame
    /\ score_out = NoScoreOut

\* encode_phase has not been called for a whole turn
NoPhaseGame == [called |-> FALSE]
NoPhaseOut == [err |-> "not called", y_actions |-> <<>>, valid_power_idxs |-> {}, valids |-> <<>>]
NoPhase ==
    /\ phase_game = NoPhaseGame
    /\ phase_out = NoPhaseOut

\* no experiment folder, and handle_dst has not been called
NoExpDir == [folder |-> FALSE, job_id |-> "none", result |-> FALSE]
NoHd == [pc |-> "idle", mode |-> "none", need_run |-> TRUE, seen |-> "none", stable |-> TRUE,
         pruned |-> FALSE, prune_status |-> "none", before |-> NoExpDir]
NoLauncher ==
    /\ exp_dir = NoExpDir
    /\ squeue = FALSE
    /\ slurm_cache = "unset"
    /\ hd = NoHd

\* no caller has passed an index tensor
NoReader ==
    reader = [idx |-> <<>>, passed |-> <<>>, after |-> <<>>, outs |-> <<>>, ds |-> NoDataset]

\* the other parts of the program have not been called
NoRest ==
    /\ NoLookup
    /\ NoScores
    /\ NoPhase
    /\ NoLauncher
    /\ NoReader

\* The indices a reader passes: every index of the dataset and the two next
\* to each end of -len .. len-1.
ReaderIdxs(ds) ==
    LET n == IF ds.num_elements = NoneNum THEN 0 ELSE len(ds)
    IN  (-n - 2) .. (n + 1)

\* preprocess() returns None
Returned == [op |-> "preprocess", idx |-> 0, out |-> Number(-1)]

InitDataset ==
    /\ self \in {Dataset([k \in 1 .. MaxGames |-> k], n) : n \in CfSamples}
    /\ pc = "idle"
    /\ encoded_game_tuples = <<>>
    /\ ret = NoCall
    /\ datasets = <<>>
    /\ merged = NoDataset
    /\ NoEncoder
    /\ NoRest

\* preprocess(): a whole call on a dataset that is not built yet.  An
\* exception of an encoding task ends the call before line 112.
Preprocess ==
    /\ pc = "idle"
    /\ ~self.preprocessed
    /\ \E files \in [1 .. Len(self.game_ids) -> Files] :
          IF \E k \in DOMAIN files : encode_game_raises(files[k])
          THEN /\ ret' = [op |-> "preprocess", idx |-> 0,
                          out |-> Raised(CHOOSE e \in OtherErrors :
                                     \E k \in DOMAIN files : files[k].kind = e)]
               /\ UNCHANGED <<self, encoded_game_tuples>>
          ELSE /\ encoded_game_tuples' = mp_encode_games(self, files)
               /\ self' = preprocess(self, encoded_game_tuples')
               /\ ret' = Returned
    /\ UNCHANGED <<pc, datasets, merged, encoder, rest>>

\* a reader's dataset[idx]
GetItem ==
    /\ ret = NoCall
    /\ \E idx \in ReaderIdxs(self) :
          ret' = [op |-> "getitem", idx |-> idx, out |-> getitem(self, idx)]
    /\ UNCHANGED <<self, pc, encoded_game_tuples, datasets, merged, encoder, rest>>

\* a reader's len(dataset)
LenCall ==
    /\ ret = NoCall
    /\ ret' = [op |-> "len", idx |-> 0, out |-> len_call(self)]
    /\ UNCHANGED <<self, pc, encoded_game_tuples, datasets, merged, encoder, rest>>

\* the caller drops the result of its last call
Drop ==
    /\ ret # NoCall
    /\ ret' = NoCall
    /\ UNCHANGED <<self, pc, encoded_game_tuples, datasets, merged, encoder, rest>>

Next == Preprocess \/ GetItem \/ LenCall \/ Drop

Spec == InitDataset /\ [][Next]_vars

----------------------------------------------------------------------------
(* Properties of the index: preprocess, __len__, __getitem__ *)

\* the matches of a batch that loaded
Loaded(tuples) == {k \in DOMAIN tuples : tuples[k].g # NoneG}

\* the (match, turn, player) triples of a loaded match whose mask entry is true
ValidTriples(g) ==
    UNION {{<<g[p].gid, g[p].phase, w>> : w \in g[p].valid} : p \in DOMAIN g}

\* the number of valid triples of the loaded matches of a batch
CountValid(tuples) ==
    SumSeq([k \in DOMAIN tuples |->
               IF tuples[k].g = NoneG THEN 0
               ELSE Cardinality(ValidTriples(tuples[k].g))])

\* C1 as claimed: when preprocess() has completed, len(dataset) is
\* n_cf_agent_samples times the number of valid (match, turn, player) triples
\* of all the matches that loaded.
C1_LenCountsLoadedTriples ==
    self.preprocessed =>
        len(self) = self.n_cf_agent_samples * CountValid(encoded_game_tuples)

\* the valid triples of the matches preprocess keeps: the loaded matches whose
\* first turn has a valid player
KeptTriples(tuples) ==
    UNION {ValidTriples(tuples[k].g) :
              k \in {j \in Loaded(tuples) : FirstPhaseAny(tuples[j].g)}}

\* C2: for every index 0 <= i < len(dataset), __getitem__(i) reads the triple
\* at row i div n_cf_agent_samples and returns the label variant number
\* i mod n_cf_agent_samples stored for that triple's turn and player, and
\* i -> (row, sample) is a bijection of 0..len-1 onto triples x samples.
C2_GetItemAddressing ==
    self.preprocessed =>
        LET n == self.n_cf_agent_samples
            Got(i) == getitem(self, i)
            Key(i) == <<Got(i).gid, Got(i).phase, Got(i).power, i % n>>
        IN  /\ \A i \in 0 .. (len(self) - 1) :
                  LET r == i \div n
                  IN  /\ Got(i).err = "none"
                      /\ Got(i).gid = At(self.game_ids, At(self.game_idxs, r))
                      /\ Got(i).phase = At(self.phase_idxs, r)
                      /\ Got(i).power = At(self.power_idxs, r)
                      /\ Got(i).y_actions = Key(i)
            /\ \A i, j \in 0 .. (len(self) - 1) : Key(i) = Key(j) => i = j
            /\ {Key(i) : i \in 0 .. (len(self) - 1)}
                   = {<<t[1], t[2], t[3], s>> :
                         t \in KeptTriples(encoded_game_tuples), s \in 0 .. (n - 1)}
            /\ (ret.op = "getitem" /\ 0 <= ret.idx /\ ret.idx < len(self))
                   => ret.out = Got(ret.idx)

\* C2's case: a reader got the second label variant of a triple of the second
\* stored turn of a dataset with two samples per triple.
C2_Witness ==
    /\ self.preprocessed
    /\ self.n_cf_agent_samples = 2
    /\ ret.op = "getitem"
    /\ ret.out.err = "none"
    /\ ret.idx % 2 = 1
    /\ ret.idx \div 2 >= 1
    /\ At(self.x_idxs, ret.idx \div 2) >= 1
    /\ At(self.game_idxs, ret.idx \div 2) >= 1

\* C5 as claimed: on a preprocessed dataset __getitem__ raises for every
\* index that is negative or >= len(dataset).
C5_OutOfRangeRaises ==
    (ret.op = "getitem" /\ self.preprocessed
        /\ (ret.idx < 0 \/ ret.idx >= len(self)))
        => ret.out.err # "none"

\* C7 as claimed: a load or parse failure of one match never aborts the batch:
\* preprocess() completes, the absent match is in neither game_ids nor the
\* storage, and every valid triple of every other match is indexed.
C7_LoadFailureDropsOnlyThatMatch ==
    /\ ret.op = "preprocess" => ret.out.err = "none"
    /\ (self.preprocessed
           /\ \E k \in DOMAIN encoded_game_tuples : encoded_game_tuples[k].g = NoneG)
          =>
          /\ \A k \in DOMAIN encoded_game_tuples :
                encoded_game_tuples[k].g = NoneG =>
                    /\ \A j \in DOMAIN self.game_ids : self.game_ids[j] # k
                    /\ \A x \in DOMAIN self.encoded_games :
                          self.encoded_games[x].gid # k
          /\ \A k \in Loaded(encoded_game_tuples) :
                \A t \in ValidTriples(encoded_game_tuples[k].g) :
                    \E i \in 0 .. (len(self) - 1) :
                        LET e == getitem(self, i)
                        IN  <<e.gid, e.phase, e.power>> = t

\* the matches of a batch that preprocess keeps, in the order of the batch:
\* those that loaded and have a valid player in their first turn
KeptMatches(tuples) ==
    SelectSeq(tuples, LAMBDA t : t.g # NoneG /\ At(t.g, 0).valid # {})

\* the number of turns of the kept matches before the kept match k (from 0)
TurnsBefore(tuples, k) ==
    SumSeq([j \in 1 .. k |-> Len(KeptMatches(tuples)[j].g)])

\* C23: after preprocess(), for every index row r, x_idxs[r] is the number of
\* turns of all kept matches before match game_idxs[r], turns without valid
\* player included, plus phase_idxs[r]; so x_idxs[r] < num_phases, x_idxs is
\* non-decreasing, and the stored row x_idxs[r] is the turn phase_idxs[r] of
\* the match game_idxs[r].
C23_ColumnOffsets ==
    self.preprocessed =>
        /\ Len(self.x_idxs) = self.num_elements
        /\ \A r \in 0 .. (self.num_elements - 1) :
               /\ At(self.x_idxs, r)
                     = TurnsBefore(encoded_game_tuples, At(self.game_idxs, r))
                         + At(self.phase_idxs, r)
               /\ At(self.x_idxs, r) < self.num_phases
               /\ At(self.encoded_games, At(self.x_idxs, r)).gid
                     = KeptMatches(encoded_game_tuples)[At(self.game_idxs, r) + 1].g_id
               /\ At(self.encoded_games, At(self.x_idxs, r)).phase = At(self.phase_idxs, r)
        /\ \A r, q \in 0 .. (self.num_elements - 1) :
               r < q => At(self.x_idxs, r) <= At(self.x_idxs, q)

\* C23's case: two kept matches, the first with a second turn without valid
\* player, and an index row for the second turn of the second match
C23_Witness ==
    /\ self.preprocessed
    /\ self.num_games = 2
    /\ At(self.encoded_games, 1).valid = {}
    /\ \E r \in 0 .. (self.num_elements - 1) :
           /\ At(self.game_idxs, r) = 1
           /\ At(self.phase_idxs, r) = 1
           /\ At(self.x_idxs, r) = 3

\* the matches of the storage in stored order, each once
RECURSIVE StoredMatches(_)
StoredMatches(store) ==
    IF store = <<>> THEN <<>>
    ELSE LET others == StoredMatches(Tail(store))
         IN  IF others # <<>> /\ Head(others) = Head(store).gid
             THEN others
             ELSE <<Head(store).gid>> \o others

\* C24: after preprocess(), game_ids has exactly num_games entries and
\* game_ids[k] is the identifier of the match stored at match index k: a
\* match that failed to load or that preprocess leaves out is in neither
\* game_ids nor the index, and game_idxs refers to the right identifier.
C24_GameIdsFollowStorage ==
    self.preprocessed =>
        /\ Len(self.game_ids) = self.num_games
        /\ self.game_ids = StoredMatches(self.encoded_games)
        /\ \A k \in DOMAIN encoded_game_tuples :
               (encoded_game_tuples[k].g = NoneG
                    \/ At(encoded_game_tuples[k].g, 0).valid = {}) =>
                   /\ \A j \in DOMAIN self.game_ids : self.game_ids[j] # k
                   /\ \A x \in DOMAIN self.encoded_games : self.encoded_games[x].gid # k
        /\ \A r \in 0 .. (self.num_elements - 1) :
               /\ At(self.game_idxs, r) < self.num_games
               /\ At(self.game_ids, At(self.game_idxs, r))
                     = At(self.encoded_games, At(self.x_idxs, r)).gid

\* C24's case: the first match of the batch loaded but is left out, its
\* first turn having no valid player, and the second match is indexed
C24_Witness ==
    /\ self.preprocessed
    /\ Len(encoded_game_tuples) = 2
    /\ encoded_game_tuples[1].g # NoneG
    /\ At(encoded_game_tuples[1].g, 0).valid = {}
    /\ self.game_ids = <<2>>
    /\ self.num_elements > 0
    /\ At(self.game_idxs, 0) = 0

----------------------------------------------------------------------------
(* Merging shards *)

\* the most shards from_merge is handed
MaxShards == 2

Ok(turns) == [kind |-> "ok", turns |-> turns]
Missing == [kind |-> "FileNotFoundError", turns |-> <<>>]

\* a shard constructed over game_ids and built from the given files
Built(game_ids, n_cf_agent_samples, files) ==
    LET d == Dataset(game_ids, n_cf_agent_samples)
    IN  preprocess(d, mp_encode_games(d, files))

\* The shards there are to merge: two single-sample shards with matches, one
\* built from matches that were all dropped, one with two samples per triple,
\* and one that was never built.
ShardPool ==
    {Built(<<1, 2>>, 1, <<Ok(<<{2, 6}, {}>>), Ok(<<{2, 6}>>)>>),
     Built(<<3, 4>>, 1, <<Missing, Ok(<<{2, 6}, {2, 6}>>)>>),
     Built(<<5, 6>>, 1, <<Missing, Ok(<<{}, {2, 6}>>)>>),
     Built(<<7>>, 2, <<Ok(<<{2, 6}>>)>>),
     Dataset(<<8>>, 1)}

InitMerge ==
    /\ datasets \in UNION {[1 .. n -> ShardPool] : n \in 1 .. MaxShards}
    /\ merged = NoDataset
    /\ ret = NoCall
    /\ self = NoDataset
    /\ pc = "idle"
    /\ encoded_game_tuples = <<>>
    /\ NoEncoder
    /\ NoRest

\* Dataset.from_merge(datasets): a whole call
FromMerge ==
    /\ ret = NoCall
    /\ merged = NoDataset
    /\ IF from_merge_raises(datasets)
       THEN /\ ret' = [op |-> "from_merge", idx |-> 0,
                       out |-> Raised("NotImplementedError")]
            /\ UNCHANGED merged
       ELSE /\ merged' = from_merge(datasets)
            /\ ret' = [op |-> "from_merge", idx |-> 0, out |-> Number(-1)]
    /\ UNCHANGED <<self, pc, encoded_game_tuples, datasets, encoder, rest>>

\* a reader's merged[idx]
MergedGetItem ==
    /\ ret = NoCall
    /\ merged # NoDataset
    /\ \E idx \in ReaderIdxs(merged) :
          ret' = [op |-> "getitem", idx |-> idx, out |-> getitem(merged, idx)]
    /\ UNCHANGED <<self, pc, encoded_game_tuples, datasets, merged, encoder, rest>>

\* a reader's len(merged)
MergedLen ==
    /\ ret = NoCall
    /\ merged # NoDataset
    /\ ret' = [op |-> "len", idx |-> 0, out |-> len_call(merged)]
    /\ UNCHANGED <<self, pc, encoded_game_tuples, datasets, merged, encoder, rest>>

NextMerge == FromMerge \/ MergedGetItem \/ MergedLen \/ Drop

SpecMerge == InitMerge /\ [][NextMerge]_vars

\* the number of examples, matches and stored turns of the shards before
\* shard k
ExamplesBefore(ds, k) == SumSeq([j \in 1 .. (k - 1) |-> len(ds[j])])
GamesBefore(ds, k) == SumSeq([j \in 1 .. (k - 1) |-> ds[j].num_games])
PhasesBefore(ds, k) == SumSeq([j \in 1 .. (k - 1) |-> ds[j].num_phases])

\* C3: from_merge of one or more preprocessed single-sample shards returns a
\* preprocessed dataset whose length is the sum of the shards' lengths and
\* whose examples are the shards' examples in shard order, each keeping its
\* turn and player, with its match index rebased by the matches and its
\* x_idx by the turns of the shards before it.
C3_MergeConcatenatesShards ==
    merged # NoDataset =>
        /\ merged.preprocessed
        /\ len(merged) = SumSeq([j \in DOMAIN datasets |-> len(datasets[j])])
        /\ \A k \in DOMAIN datasets :
              \A i \in 0 .. (len(datasets[k]) - 1) :
                  LET m == ExamplesBefore(datasets, k) + i
                  IN  /\ getitem(merged, m) = getitem(datasets[k], i)
                      /\ getitem(merged, m).err = "none"
                      /\ At(merged.game_idxs, m)
                            = At(datasets[k].game_idxs, i) + GamesBefore(datasets, k)
                      /\ At(merged.x_idxs, m)
                            = At(datasets[k].x_idxs, i) + PhasesBefore(datasets, k)
                      /\ At(merged.phase_idxs, m) = At(datasets[k].phase_idxs, i)
                      /\ At(merged.power_idxs, m) = At(datasets[k].power_idxs, i)
                      /\ At(merged.game_ids, At(merged.game_idxs, m))
                            = At(datasets[k].game_ids, At(datasets[k].game_idxs, i))
        /\ (ret.op = "getitem" /\ 0 <= ret.idx /\ ret.idx < len(merged))
              => \E k \in DOMAIN datasets :
                    \E i \in 0 .. (len(datasets[k]) - 1) :
                        /\ ret.idx = ExamplesBefore(datasets, k) + i
                        /\ ret.out = getitem(datasets[k], i)

\* C3's case: two non-empty shards were merged and a reader got an example of
\* the second shard that is stored after the second shard's first turn.
C3_Witness ==
    /\ merged # NoDataset
    /\ Len(datasets) = 2
    /\ len(datasets[1]) > 0
    /\ datasets[1].num_games > 1
    /\ ret.op = "getitem"
    /\ ret.out.err = "none"
    /\ ret.idx >= len(datasets[1])
    /\ At(datasets[2].x_idxs, ret.idx - len(datasets[1])) > 0

\* a shard from_merge must refuse
BadShard(d) == d.n_cf_agent_samples # 1 \/ ~d.preprocessed

\* C4: from_merge raises and returns no merged dataset whenever some shard
\* has n_cf_agent_samples # 1 or is not preprocessed, whichever shard it is.
C4_MergeRejectsBadShards ==
    /\ (\E k \in DOMAIN datasets : BadShard(datasets[k])) => merged = NoDataset
    /\ (ret.op = "from_merge" /\ \E k \in DOMAIN datasets : BadShard(datasets[k]))
          => ret.out.err = "NotImplementedError"
    /\ (ret.op = "from_merge" /\ \A k \in DOMAIN datasets : ~BadShard(datasets[k]))
          => (ret.out.err = "none" /\ merged # NoDataset)

\* C4's case: from_merge raised for shards of which the first is mergeable
\* and a later one is not.
C4_Witness ==
    /\ ret.op = "from_merge"
    /\ ret.out.err = "NotImplementedError"
    /\ merged = NoDataset
    /\ Len(datasets) >= 2
    /\ ~BadShard(datasets[1])
    /\ BadShard(datasets[Len(datasets)])

----------------------------------------------------------------------------
(* __getitem__ with an index tensor *)

\* idx //= n of a torch build whose Tensor has no in-place floor division:
\* the local name is bound to a new tensor and the caller's keeps its values
floordiv_rebound(idx, n) == idx

\* idx //= n of a torch build whose Tensor divides in place, line 184: the
\* caller's tensor holds the quotients
floordiv_inplace(idx, n) == [j \in DOMAIN idx |-> idx[j] \div n]

\* Dataset.__getitem__ for an index tensor of values >= 0, lines 174-224: the
\* batch of examples, and the caller's tensor after the call
getitem_tensor(ds, idx, inplace) ==
    IF ~ds.preprocessed \/ (\E j \in DOMAIN idx : ~(idx[j] < len(ds)))
    THEN [out |-> <<Raised("AssertionError")>>, idx |-> idx]
    ELSE [out |-> [j \in DOMAIN idx |-> getitem(ds, idx[j])],
          idx |-> IF inplace THEN floordiv_inplace(idx, ds.n_cf_agent_samples)
                  ELSE floordiv_rebound(idx, ds.n_cf_agent_samples)]

\* the most elements of an index tensor, and the most calls of a caller
MaxBatch == 2
MaxCalls == 2

\* built datasets with one or two samples per triple
BuiltDatasets ==
    {Built(<<1, 2>>, n, <<Ok(<<{2, 6}, {}>>), Ok(<<{2, 6}, {2, 6}>>)>>) : n \in CfSamples}
        \cup {Built(<<1>>, n, <<Ok(<<{2, 6}>>)>>) : n \in CfSamples}

\* a built dataset and a caller's index tensor of values 0 .. len
InitReader ==
    /\ self \in BuiltDatasets
    /\ pc = "idle"
    /\ encoded_game_tuples = <<>>
    /\ ret = NoCall
    /\ datasets = <<>>
    /\ merged = NoDataset
    /\ NoEncoder
    /\ NoLookup
    /\ NoScores
    /\ NoPhase
    /\ NoLauncher
    /\ reader \in {[idx |-> t, passed |-> <<>>, after |-> <<>>, outs |-> <<>>, ds |-> self] :
                      t \in UNION {[1 .. b -> 0 .. len(self)] : b \in 1 .. MaxBatch}}

\* the caller's dataset[idx] with its tensor
GetItemTensor ==
    /\ Len(reader.passed) < MaxCalls
    /\ \E inplace \in BOOLEAN :
          LET call == getitem_tensor(self, reader.idx, inplace)
          IN  reader' = [reader EXCEPT !.idx = call.idx,
                                       !.passed = Append(reader.passed, reader.idx),
                                       !.after = Append(reader.after, call.idx),
                                       !.outs = Append(reader.outs, call.out)]
    /\ UNCHANGED <<self, pc, encoded_game_tuples, ret, datasets, merged, encoder,
                   resolver, scorer, phaser, launcher>>

\* the caller writes the values of its first call into its tensor again
WriteBack ==
    /\ reader.passed # <<>>
    /\ reader.idx # reader.passed[1]
    /\ reader' = [reader EXCEPT !.idx = reader.passed[1]]
    /\ UNCHANGED <<self, pc, encoded_game_tuples, ret, datasets, merged, encoder,
                   resolver, scorer, phaser, launcher>>

NextReader == GetItemTensor \/ WriteBack

SpecReader == InitReader /\ [][NextReader]_vars

\* C25: __getitem__ is a pure read for every n_cf_agent_samples >= 1: after
\* a call with an index tensor the caller's tensor holds the values it held
\* before the call, no field of the dataset has changed, and two calls with
\* the same index values return the same examples.
C25_GetItemIsPureRead ==
    /\ self = reader.ds
    /\ \A i \in DOMAIN reader.passed : reader.after[i] = reader.passed[i]
    /\ \A i, j \in DOMAIN reader.passed :
           reader.passed[i] = reader.passed[j] => reader.outs[i] = reader.outs[j]

----------------------------------------------------------------------------
(* preprocess() line by line, while readers use the dataset *)

\* preprocess() up to line 110: the encoding tasks have run.  An exception of
\* a task ends the call with the dataset as it was.
CallPreprocess ==
    /\ pc = "idle"
    /\ \E files \in [1 .. Len(self.game_ids) -> Files] :
          IF \E k \in DOMAIN files : encode_game_raises(files[k])
          THEN UNCHANGED <<pc, encoded_game_tuples>>
          ELSE /\ encoded_game_tuples' = mp_encode_games(self, files)
               /\ pc' = "l122"
    /\ UNCHANGED <<self, ret, datasets, merged, encoder, rest>>

\* one assignment of preprocess() to a field of self
Assign(at, new_self, to) ==
    /\ pc = at
    /\ self' = new_self
    /\ pc' = to
    /\ UNCHANGED <<encoded_game_tuples, ret, datasets, merged, encoder, rest>>

Line122 == Assign("l122", L122(self, encoded_game_tuples), "l143")
Line143 == Assign("l143", L143(self, encoded_game_tuples), "l144")
Line144 == Assign("l144", L144(self, encoded_game_tuples), "l145")
Line145 == Assign("l145", L145(self, encoded_game_tuples), "l146")
Line146 == Assign("l146", L146(self, encoded_game_tuples), "l149")
Line149 == Assign("l149", L149(self, encoded_game_tuples), "l151")
Line151 == Assign("l151", L151(self, encoded_game_tuples), "l152")
Line152 == Assign("l152", L152(self), "l153")
Line153 == Assign("l153", L153(self), "l155")

\* lines 155-157: validate_dataset's assertions, then the flag
Line155 ==
    IF validate_dataset(self)
    THEN Assign("l155", L157(self), "idle")
    ELSE Assign("l155", self, "idle")

NextLines ==
    \/ CallPreprocess
    \/ Line122 \/ Line143 \/ Line144 \/ Line145 \/ Line146
    \/ Line149 \/ Line151 \/ Line152 \/ Line153 \/ Line155
    \/ GetItem \/ LenCall \/ Drop

SpecLines == InitDataset /\ [][NextLines]_vars

\* every field preprocess populates is set
AllSet(ds) ==
    /\ ds.game_idxs # NoneArray
    /\ ds.phase_idxs # NoneArray
    /\ ds.power_idxs # NoneArray
    /\ ds.x_idxs # NoneArray
    /\ ds.encoded_games # NoneStore
    /\ ds.num_games # NoneNum
    /\ ds.num_phases # NoneNum
    /\ ds.num_elements # NoneNum

\* the populated fields agree with each other
Consistent(ds) ==
    /\ Len(ds.game_idxs) = Len(ds.x_idxs)
    /\ Len(ds.phase_idxs) = Len(ds.x_idxs)
    /\ Len(ds.power_idxs) = Len(ds.x_idxs)
    /\ ds.num_elements = Len(ds.x_idxs)
    /\ ds.num_phases = Len(ds.encoded_games)
    /\ \A r \in DOMAIN ds.x_idxs : ds.x_idxs[r] < ds.num_phases
    /\ \A r \in DOMAIN ds.game_idxs : ds.game_idxs[r] < ds.num_games

\* C6 as claimed: whenever the flag is true, also while a call of
\* preprocess() is under way, the populated fields are all set and mutually
\* consistent; whenever the flag is false, __getitem__ fails.
C6_NoPartialBuildExposed ==
    /\ self.preprocessed => (AllSet(self) /\ Consistent(self))
    /\ ~self.preprocessed =>
          \A idx \in ReaderIdxs(self) : getitem(self, idx).err # "none"

----------------------------------------------------------------------------
(* Orders and the order vocabulary *)

(* An order string is the sequence of its whitespace-separated fields, so    *)
(* order.split() is the order itself and order.split()[i] is At(order, i).   *)
(* The ";" of a combined build string is written as a field of its own,      *)
(* which leaves field 1, the only field the program reads of such a string,  *)
(* where it is.                                                              *)

\* the steps of a candidate table (17 in the program)
MAX_SEQ_LEN == 3
\* the candidates of a step (469 in the program)
MAX_VALID_LEN == 6
\* the padding of candidate tables and label arrays
EOS_IDX == -1
\* what a vocabulary lookup gives for a string that is no key
KeyError == -2

\* the locations in canonical order
LOCS == <<"BRE", "MAR", "PAR", "SPA", "SPA/NC", "SPA/SC">>

\* LOCS.index(loc)
LocIndex(loc) == (CHOOSE i \in DOMAIN LOCS : LOCS[i] = loc) - 1

WAIVE == <<"WAIVE">>

\* ORDER_VOCABULARY: the id of an order string is its position, from 0
ORDER_VOCABULARY ==
    <<
      <<"F", "SPA/SC", "-", "MAO">>,
      <<"A", "MAR", "H">>,
      <<"F", "BRE", "B">>,
      <<"F", "BRE", "-", "MAO">>,
      <<"A", "MAR", "S", "F", "SPA">>,
      <<"A", "BRE", "B", ";", "F", "MAR", "B">>,
      <<"F", "BRE", "H">>,
      <<"A", "PAR", "B">>,
      <<"F", "SPA/SC", "H">>,
      <<"A", "BRE", "B">>,
      <<"A", "MAR", "B", ";", "F", "BRE", "B">>,
      <<"F", "MAR", "B">>,
      <<"A", "MAR", "D">>,
      <<"A", "BRE", "B", ";", "A", "MAR", "B">>,
      <<"A", "MAR", "B">>,
      <<"F", "BRE", "B", ";", "F", "MAR", "B">>,
      <<"F", "SPA/SC", "D">>,
      <<"A", "BRE", "B", ";", "A", "PAR", "B">>,
      <<"A", "PAR", "B", ";", "F", "BRE", "B">>,
      <<"F", "BRE", "D">>,
      <<"A", "MAR", "B", ";", "A", "PAR", "B">>,
      <<"A", "PAR", "B", ";", "F", "MAR", "B">>,
      <<"A", "PAR", "H">>
    >>

InVocabulary(order) == \E i \in DOMAIN ORDER_VOCABULARY : ORDER_VOCABULARY[i] = order

\* ORDER_VOCABULARY_TO_IDX[order], or KeyError
ORDER_VOCABULARY_TO_IDX(order) ==
    IF InVocabulary(order)
    THEN (CHOOSE i \in DOMAIN ORDER_VOCABULARY : ORDER_VOCABULARY[i] = order) - 1
    ELSE KeyError

\* the fields that end in a coastal suffix, with the suffix and what is left
\* of the field without it
CoastalFields == {<<"SPA/NC", "/NC", "SPA">>, <<"SPA/SC", "/SC", "SPA">>}

\* order.replace(suffix, "")
Replace(order, suffix) ==
    [j \in DOMAIN order |->
        IF \E c \in CoastalFields : c[1] = order[j] /\ c[2] = suffix
        THEN (CHOOSE c \in CoastalFields : c[1] = order[j] /\ c[2] = suffix)[3]
        ELSE order[j]]

\* smarter_order_index, lines 576-577: every coastal suffix removed
StripCoasts(order) ==
    Replace(Replace(Replace(Replace(order, "/NC"), "/EC"), "/SC"), "/WC")

\* smarter_order_index without the retry of lines 575-578
smarter_order_index_once(order) == ORDER_VOCABULARY_TO_IDX(order)

\* smarter_order_index: the id of the order, or of the order without its
\* coastal suffixes, or KeyError
smarter_order_index(order) ==
    IF InVocabulary(order)
    THEN ORDER_VOCABULARY_TO_IDX(order)
    ELSE ORDER_VOCABULARY_TO_IDX(StripCoasts(order))

\* filter_orders_in_vocab: the ids of the orders that resolve
filter_orders_in_vocab(orders) ==
    LET found == SelectSeq(orders, LAMBDA o : smarter_order_index(o) # KeyError)
    IN  [j \in DOMAIN found |-> smarter_order_index(found[j])]

\* filter_orders_in_vocab, the first component: the orders that resolve
filter_orders_in_vocab_ret(orders) ==
    SelectSeq(orders, LAMBDA o : smarter_order_index(o) # KeyError)

\* list.sort / sorted / Tensor.sort on <<key, value>> pairs: ascending by
\* key, equal keys in their former order
RECURSIVE InsertPair(_, _)
InsertPair(sorted, pair) ==
    IF sorted = <<>> THEN <<pair>>
    ELSE IF Head(sorted)[1] <= pair[1]
         THEN <<Head(sorted)>> \o InsertPair(Tail(sorted), pair)
         ELSE <<pair>> \o sorted

RECURSIVE SortPairs(_)
SortPairs(pairs) ==
    IF pairs = <<>> THEN <<>>
    ELSE InsertPair(SortPairs(AllButLast(pairs)), pairs[Len(pairs)])

\* the ids as they are, without the sort
Unsorted(ids) == ids

\* order_idxs.sort().values
SortIds(ids) ==
    LET sorted == SortPairs([j \in DOMAIN ids |-> <<ids[j], ids[j]>>])
    IN  [j \in DOMAIN sorted |-> sorted[j][2]]

\* The order strings of one order each that occur, in the order of Python's
\* string comparison.
StringOrder ==
    <<
      <<"A", "BRE", "B">>,
      <<"A", "MAR", "-", "MOS">>,
      <<"A", "MAR", "B">>,
      <<"A", "MAR", "D">>,
      <<"A", "MAR", "H">>,
      <<"A", "MAR", "S", "F", "SPA/SC">>,
      <<"A", "MUN", "B">>,
      <<"A", "PAR", "B">>,
      <<"A", "PAR", "H">>,
      <<"F", "BRE", "-", "MAO">>,
      <<"F", "BRE", "-", "MOS">>,
      <<"F", "BRE", "B">>,
      <<"F", "BRE", "D">>,
      <<"F", "BRE", "H">>,
      <<"F", "MAR", "B">>,
      <<"F", "SPA/SC", "-", "MAO">>,
      <<"F", "SPA/SC", "D">>,
      <<"F", "SPA/SC", "H">>,
      <<"WAIVE">>
    >>

StringRank(order) == CHOOSE i \in DOMAIN StringOrder : StringOrder[i] = order

\* sorted(orders) for a list of order strings
SortedStrings(orders) ==
    LET sorted == SortPairs([j \in DOMAIN orders |-> <<StringRank(orders[j]), orders[j]>>])
    IN  [j \in DOMAIN sorted |-> sorted[j][2]]

\* ";".join(orders)
RECURSIVE Join(_)
Join(orders) ==
    IF orders = <<>> THEN <<>>
    ELSE IF Len(orders) = 1 THEN Head(orders)
    ELSE Head(orders) \o <<";">> \o Join(Tail(orders))

----------------------------------------------------------------------------
(* get_valid_orders_impl: the candidate table of one player in one turn *)

\* a tensor of the given length filled with EOS_IDX
Filled(n) == [k \in 1 .. n |-> EOS_IDX]

\* the outcome of a call that raised
Failed(e) == [err |-> e, all_order_idxs |-> <<>>, loc_idxs |-> <<>>, n |-> 0]

\* some listing of the elements of a finite set
RECURSIVE SetToSeq(_)
SetToSeq(S) ==
    IF S = {} THEN <<>>
    ELSE LET e == CHOOSE x \in S : TRUE
         IN  <<e>> \o SetToSeq(S \ {e})

\* line 444: the possible orders of a location without "WAIVE"
StripWaive(all_possible_orders, loc) ==
    SelectSeq(all_possible_orders[loc], LAMBDA x : x # WAIVE)

\* lines 450-453: the orderable locations by the canonical index of the
\* location their first possible order names
SortedLocs(all_possible_orders, locs) ==
    LET sorted == SortPairs([j \in DOMAIN locs |->
                     <<LocIndex(At(StripWaive(all_possible_orders, locs[j])[1], 1)), locs[j]>>])
    IN  [j \in DOMAIN sorted |-> sorted[j][2]]

\* a row of the table after row[:len(ids)] = ids
PadRow(ids) ==
    [k \in 1 .. MAX_VALID_LEN |-> IF k <= Len(ids) THEN ids[k] ELSE EOS_IDX]

\* lines 461-465 without the product of line 464: one combined string for
\* every choice of n_builds locations, of the first possible order of each
BuildStrings_first(all_possible_orders, orderable_locs, n_builds) ==
    LET m == Len(orderable_locs)
        combos == {c \in [1 .. n_builds -> 1 .. m] :
                      \A a, b \in 1 .. n_builds : a < b => c[a] < c[b]}
        listed == SetToSeq(combos)
    IN  [j \in DOMAIN listed |->
            Join(SortedStrings([a \in 1 .. n_builds |->
                    StripWaive(all_possible_orders, orderable_locs[listed[j][a]])[1]]))]

\* lines 461-465: one combined string for every choice of n_builds locations
\* and of one possible order at each of them
BuildStrings(all_possible_orders, orderable_locs, n_builds) ==
    LET m == Len(orderable_locs)
        poss(j) == StripWaive(all_possible_orders, orderable_locs[j])
        combos == {c \in [1 .. n_builds -> 1 .. m] :
                      \A a, b \in 1 .. n_builds : a < b => c[a] < c[b]}
        picks == {cx \in combos \X [1 .. n_builds -> 1 .. MAX_VALID_LEN] :
                      \A a \in 1 .. n_builds : cx[2][a] <= Len(poss(cx[1][a]))}
        listed == SetToSeq(picks)
    IN  [j \in DOMAIN listed |->
            Join(SortedStrings([a \in 1 .. n_builds |->
                    poss(listed[j][1][a])[listed[j][2][a]]]))]

\* loc_idxs with the step index of line 483 written in every kind of turn
LocIdxs_steps(orderable_locs, adjustment) ==
    [k \in DOMAIN LOCS |->
        IF \E j \in DOMAIN orderable_locs : orderable_locs[j] = LOCS[k]
        THEN (CHOOSE j \in DOMAIN orderable_locs : orderable_locs[j] = LOCS[k]) - 1
        ELSE -1]

\* lines 468, 476 and 483: loc_idxs after the assignments
LocIdxs(orderable_locs, adjustment) ==
    [k \in DOMAIN LOCS |->
        IF \E j \in DOMAIN orderable_locs : orderable_locs[j] = LOCS[k]
        THEN IF adjustment THEN -2
             ELSE (CHOOSE j \in DOMAIN orderable_locs : orderable_locs[j] = LOCS[k]) - 1
        ELSE -1]

\* line 475 with the slice :1 of line 467: the list goes to the first step only
DisbandRows_first(order_idxs, n_disbands) ==
    [i \in 1 .. MAX_SEQ_LEN |->
        IF i = 1 THEN PadRow(SortIds(order_idxs)) ELSE Filled(MAX_VALID_LEN)]

\* line 475: the sorted list goes to each of the first n_disbands steps
DisbandRows(order_idxs, n_disbands) ==
    [i \in 1 .. MAX_SEQ_LEN |->
        IF i <= n_disbands THEN PadRow(SortIds(order_idxs)) ELSE Filled(MAX_VALID_LEN)]

get_valid_orders_impl(listed, all_possible_orders, all_orderable_locations, n_builds) ==
    IF ~listed
    THEN [err |-> "none",
          all_order_idxs |-> [i \in 1 .. MAX_SEQ_LEN |-> Filled(MAX_VALID_LEN)],
          loc_idxs |-> [k \in DOMAIN LOCS |-> -1], n |-> 0]
    ELSE
    LET orderable_locs == SortedLocs(all_possible_orders, all_orderable_locations)
        power_possible_orders ==
            Flatten([j \in DOMAIN orderable_locs |->
                        StripWaive(all_possible_orders, orderable_locs[j])])
    IN  IF n_builds > 0
        THEN LET orders == BuildStrings(all_possible_orders, orderable_locs, n_builds)
             IN  IF \E j \in DOMAIN orders : ~InVocabulary(orders[j])
                 THEN Failed("KeyError")
                 ELSE IF Len(orders) > MAX_VALID_LEN
                 THEN Failed("RuntimeError")
                 ELSE LET order_idxs == [j \in DOMAIN orders |-> ORDER_VOCABULARY_TO_IDX(orders[j])]
                      IN  [err |-> "none",
                           all_order_idxs |->
                               [i \in 1 .. MAX_SEQ_LEN |->
                                   IF i = 1 THEN PadRow(SortIds(order_idxs))
                                   ELSE Filled(MAX_VALID_LEN)],
                           loc_idxs |-> LocIdxs(orderable_locs, TRUE),
                           n |-> n_builds]
        ELSE IF n_builds < 0
        THEN LET n_disbands == -n_builds
                 order_idxs == filter_orders_in_vocab(power_possible_orders)
             IN  IF Len(order_idxs) > MAX_VALID_LEN
                 THEN Failed("RuntimeError")
                 ELSE [err |-> "none",
                       all_order_idxs |-> DisbandRows(order_idxs, n_disbands),
                       loc_idxs |-> LocIdxs(orderable_locs, TRUE),
                       n |-> n_disbands]
        ELSE LET order_idxs(j) ==
                     filter_orders_in_vocab(StripWaive(all_possible_orders, orderable_locs[j]))
             IN  IF Len(orderable_locs) > MAX_SEQ_LEN
                 THEN Failed("IndexError")
                 ELSE IF \E j \in DOMAIN orderable_locs : Len(order_idxs(j)) > MAX_VALID_LEN
                 THEN Failed("RuntimeError")
                 ELSE [err |-> "none",
                       all_order_idxs |->
                           [i \in 1 .. MAX_SEQ_LEN |->
                               IF i <= Len(orderable_locs) THEN PadRow(SortIds(order_idxs(i)))
                               ELSE Filled(MAX_VALID_LEN)],
                       loc_idxs |-> LocIdxs(orderable_locs, FALSE),
                       n |-> Len(orderable_locs)]

----------------------------------------------------------------------------
(* encode_power_actions: the labels of one player's orders *)

\* the outcome of encode_power_actions
Encoded(e, y_actions, valid) == [err |-> e, y_actions |-> y_actions, valid |-> valid]

\* line 544: the ids by the canonical index of the location their
\* vocabulary string names
SortByLoc(order_idxs) ==
    LET sorted == SortPairs([j \in DOMAIN order_idxs |->
                     <<LocIndex(At(At(ORDER_VOCABULARY, order_idxs[j]), 1)), order_idxs[j]>>])
    IN  [j \in DOMAIN sorted |-> sorted[j][2]]

\* line 547: whether x_possible_actions[i] exists and holds order_idx
Found(x_possible_actions, i, order_idx) ==
    /\ i < Len(x_possible_actions)
    /\ \E k \in DOMAIN At(x_possible_actions, i) : At(x_possible_actions, i)[k] = order_idx

\* line 547: (x_possible_actions[i] == order_idx).nonzero()[0, 0]
CandIdx(x_possible_actions, i, order_idx) ==
    Min({k \in DOMAIN At(x_possible_actions, i) : At(x_possible_actions, i)[k] = order_idx}) - 1

\* lines 545-556: the loop over the sorted ids, which stops at the first id
\* that is not a candidate of its step
Lookup(order_idxs, x_possible_actions) ==
    LET ok(i) == Found(x_possible_actions, i - 1, order_idxs[i])
        stop == IF \A i \in DOMAIN order_idxs : ok(i) THEN Len(order_idxs) + 1
                ELSE Min({i \in DOMAIN order_idxs : ~ok(i)})
    IN  Encoded("none",
                [i \in 1 .. MAX_SEQ_LEN |->
                    IF i < stop /\ i <= Len(order_idxs)
                    THEN CandIdx(x_possible_actions, i - 1, order_idxs[i])
                    ELSE EOS_IDX],
                stop > Len(order_idxs))

IsBuild(order) == At(order, 2) = "B"

encode_power_actions(orders, x_possible_actions) ==
    IF \E j \in DOMAIN orders : Len(orders[j]) < 3
    THEN Encoded("none", Filled(MAX_SEQ_LEN), FALSE)
    ELSE IF \E j \in DOMAIN orders : IsBuild(orders[j])
    THEN IF ~ \A j \in DOMAIN orders : IsBuild(orders[j])
         THEN Encoded("AssertionError", <<>>, FALSE)
         ELSE LET order == Join(SortedStrings(orders))
              IN  IF ~InVocabulary(order)
                  THEN Encoded("none", Filled(MAX_SEQ_LEN), FALSE)
                  ELSE Lookup(<<ORDER_VOCABULARY_TO_IDX(order)>>, x_possible_actions)
    ELSE Lookup(SortByLoc(filter_orders_in_vocab(orders)), x_possible_actions)

----------------------------------------------------------------------------
(* encode_phase for one player: the candidate table, then the labels *)

\* the orders a list of the player's record holds at most
MaxOrders == 3
\* the number of units the player may have to build or, negated, to disband
AdjustmentCounts == {1, 2}

\* the units of the player in a movement turn or a disband turn, and the
\* home centres of a build turn
UnitLocs(kind) ==
    CASE kind = "B" -> {"BRE", "MAR", "PAR"}
      [] kind = "D" -> {"BRE", "MAR", "PAR", "SPA"}
      [] OTHER -> {"BRE", "MAR", "SPA"}

\* game.get_all_possible_orders(): the legal orders of every location
PossibleOrders(kind) ==
    [loc \in {"BRE", "MAR", "PAR", "SPA"} |->
        CASE kind = "M" /\ loc = "BRE" -> <<<<"F", "BRE", "H">>, <<"F", "BRE", "-", "MAO">>>>
          [] kind = "M" /\ loc = "MAR" -> <<<<"A", "MAR", "H">>, <<"A", "MAR", "S", "F", "SPA/SC">>>>
          [] kind = "M" /\ loc = "SPA" -> <<<<"F", "SPA/SC", "H">>, <<"F", "SPA/SC", "-", "MAO">>>>
          [] kind = "B" /\ loc = "BRE" -> <<<<"A", "BRE", "B">>, <<"F", "BRE", "B">>, WAIVE>>
          [] kind = "B" /\ loc = "MAR" -> <<<<"A", "MAR", "B">>, <<"F", "MAR", "B">>, WAIVE>>
          [] kind = "B" /\ loc = "PAR" -> <<<<"A", "PAR", "B">>, WAIVE>>
          [] kind = "D" /\ loc = "BRE" -> <<<<"F", "BRE", "D">>>>
          [] kind = "D" /\ loc = "MAR" -> <<<<"A", "MAR", "D">>>>
          [] kind = "D" /\ loc = "PAR" -> <<<<"A", "PAR", "D">>>>
          [] kind = "D" /\ loc = "SPA" -> <<<<"F", "SPA/SC", "D">>>>
          [] OTHER -> <<>>]

\* the turns: the kind of the phase, the player's orderable locations and
\* the number of builds (negative: disbands) the player owes
Turns ==
    {NoTurn}
    \cup {[listed |-> TRUE, kind |-> "M", all_orderable_locations |-> SetToSeq(S), n_builds |-> 0] :
            S \in SUBSET UnitLocs("M")}
    \cup {[listed |-> TRUE, kind |-> "B", all_orderable_locations |-> SetToSeq(sn[1]), n_builds |-> sn[2]] :
            sn \in {x \in (SUBSET UnitLocs("B")) \X AdjustmentCounts : x[2] <= Cardinality(x[1])}}
    \cup {[listed |-> TRUE, kind |-> "D", all_orderable_locations |-> SetToSeq(sn[1]), n_builds |-> -sn[2]] :
            sn \in {x \in (SUBSET UnitLocs("D")) \X AdjustmentCounts : x[2] <= Cardinality(x[1])}}

\* the order strings a record of the turn may hold: the legal orders of the
\* turn, orders of the vocabulary that are not legal in the turn, strings
\* that are not in the vocabulary and strings of fewer than three fields
RecordedOrders(kind) ==
    UNION {{PossibleOrders(kind)[loc][j] : j \in DOMAIN PossibleOrders(kind)[loc]} :
              loc \in DOMAIN PossibleOrders(kind)}
    \cup (CASE kind = "M" -> {<<"A", "PAR", "H">>, <<"A", "PAR", "B">>,
                              <<"F", "BRE", "-", "MOS">>, <<"A", "MAR", "-", "MOS">>}
            [] kind = "B" -> {<<"F", "BRE", "H">>, <<"A", "MUN", "B">>}
            [] OTHER -> {<<"A", "MAR", "H">>})

OrderLists(kind) == UNION {[1 .. n -> RecordedOrders(kind)] : n \in 0 .. MaxOrders}

InitOrders ==
    /\ turn \in Turns
    /\ power_orders \in OrderLists(turn.kind)
    /\ inputs = NoInputs
    /\ labels = NoLabels
    /\ self = NoDataset
    /\ pc = "idle"
    /\ encoded_game_tuples = <<>>
    /\ ret = NoCall
    /\ datasets = <<>>
    /\ merged = NoDataset
    /\ NoRest

\* encode_phase, line 363: the encoder builds the player's candidate table
EncodeInputs ==
    /\ inputs = NoInputs
    /\ inputs' = get_valid_orders_impl(turn.listed, PossibleOrders(turn.kind),
                                       turn.all_orderable_locations, turn.n_builds)
    /\ UNCHANGED <<self, pc, encoded_game_tuples, ret, datasets, merged,
                   turn, power_orders, labels, rest>>

\* encode_phase, lines 387-389: the player's orders are encoded against the
\* table
EncodePowerActions ==
    /\ inputs.err = "none"
    /\ labels = NoLabels
    /\ labels' = encode_power_actions(power_orders, inputs.all_order_idxs)
    /\ UNCHANGED <<self, pc, encoded_game_tuples, ret, datasets, merged,
                   turn, power_orders, inputs, rest>>

NextOrders == EncodeInputs \/ EncodePowerActions

SpecOrders == InitOrders /\ [][NextOrders]_vars

----------------------------------------------------------------------------
(* Properties of the order encoder *)

\* encode_power_actions has been called and has ended
Called == labels # NoLabels

\* the id is a candidate of some step of the player's table
InTable(id) ==
    \E i \in DOMAIN inputs.all_order_idxs :
        \E k \in DOMAIN inputs.all_order_idxs[i] : inputs.all_order_idxs[i][k] = id

\* the first step, from 0, that has the id among its candidates
StepWith(id) ==
    Min({i \in DOMAIN inputs.all_order_idxs :
            \E k \in DOMAIN inputs.all_order_idxs[i] : inputs.all_order_idxs[i][k] = id}) - 1

\* the location an order is for, without its coast
OrderLoc(order) == StripCoasts(<<At(order, 1)>>)[1]

\* no two orders of the list are for the same location
DistinctLocs(list) ==
    \A a, b \in DOMAIN list : a # b => OrderLoc(list[a]) # OrderLoc(list[b])

\* the entries of a label array that are not padding, in array order
NonSentinel(y_actions) == SelectSeq(y_actions, LAMBDA v : v # EOS_IDX)

\* the positions the ids have among the candidates of their steps, the ids
\* taken in canonical location order
PositionsInLocOrder(ids) ==
    LET sorted == SortByLoc(ids)
    IN  [j \in DOMAIN sorted |-> CandIdx(inputs.all_order_idxs, StepWith(sorted[j]), sorted[j])]

AllThreeFields == \A j \in DOMAIN power_orders : Len(power_orders[j]) >= 3
SomeBuild == \E j \in DOMAIN power_orders : IsBuild(power_orders[j])
AllBuilds == \A j \in DOMAIN power_orders : IsBuild(power_orders[j])
JoinedBuild == Join(SortedStrings(power_orders))

\* the ids the list resolves to are all candidates of the player: the one id
\* of the combined string for a list of builds, otherwise the id of every
\* order, the orders being for different locations
ResolvedAmongCandidates ==
    /\ AllThreeFields
    /\ IF SomeBuild
       THEN /\ AllBuilds
            /\ InVocabulary(JoinedBuild)
            /\ InTable(ORDER_VOCABULARY_TO_IDX(JoinedBuild))
       ELSE /\ \A j \in DOMAIN power_orders :
                  /\ smarter_order_index(power_orders[j]) # KeyError
                  /\ InTable(smarter_order_index(power_orders[j]))
            /\ DistinctLocs(power_orders)

ResolvedIds ==
    IF SomeBuild THEN <<ORDER_VOCABULARY_TO_IDX(JoinedBuild)>>
    ELSE filter_orders_in_vocab(power_orders)

\* C8: a list of orders of three or more fields each, whose ids (after the
\* coastal fallback) are candidates of the player, is encoded as valid, and
\* the labels that are not padding are those of the orders in canonical
\* location order; also when only some of the orderable locations have an
\* order.
C8_ResolvedOrdersAreValid ==
    (Called /\ ResolvedAmongCandidates) =>
        /\ labels.err = "none"
        /\ labels.valid
        /\ NonSentinel(labels.y_actions) = PositionsInLocOrder(ResolvedIds)

\* the list is unparseable (an order of fewer than three fields), mixes
\* builds with other orders, is a list of builds whose combined string does
\* not resolve or is no candidate, or holds an order that resolves to an id
\* that is no candidate of the player
InvalidList ==
    \/ ~AllThreeFields
    \/ /\ AllThreeFields
       /\ SomeBuild
       /\ \/ ~AllBuilds
          \/ ~InVocabulary(JoinedBuild)
          \/ ~InTable(ORDER_VOCABULARY_TO_IDX(JoinedBuild))
    \/ /\ AllThreeFields
       /\ ~SomeBuild
       /\ \E j \in DOMAIN power_orders :
              /\ smarter_order_index(power_orders[j]) # KeyError
              /\ ~InTable(smarter_order_index(power_orders[j]))

\* C9: encode_power_actions never raises, and for an invalid list (also one
\* that mixes builds with other orders) it returns a label array of the
\* fixed length with valid = false.
C9_InvalidListIsNotFatal ==
    Called =>
        /\ labels.err = "none"
        /\ InvalidList => (~labels.valid /\ Len(labels.y_actions) = MAX_SEQ_LEN)

\* the step of the location the order is for, or a negative number
OwnStep(order) ==
    IF \E k \in DOMAIN LOCS : LOCS[k] = OrderLoc(order)
    THEN inputs.loc_idxs[LocIndex(OrderLoc(order)) + 1]
    ELSE -1

Unresolvable(order) == smarter_order_index(order) = KeyError

\* the order resolves to an id that is a candidate of the step of the
\* location the order is for
LegalAtOwnStep(order) ==
    /\ ~Unresolvable(order)
    /\ OwnStep(order) >= 0
    /\ Found(inputs.all_order_idxs, OwnStep(order), smarter_order_index(order))

\* A list without builds that has exactly one order for every orderable
\* location of the player, of which some cannot be resolved and all the
\* others are legal candidates of the steps of their locations.
DroppedOrderCase ==
    /\ AllThreeFields
    /\ ~SomeBuild
    /\ DistinctLocs(power_orders)
    /\ Len(power_orders) = inputs.n
    /\ \E j \in DOMAIN power_orders : Unresolvable(power_orders[j])
    /\ \A j \in DOMAIN power_orders :
           /\ OwnStep(power_orders[j]) >= 0
           /\ Unresolvable(power_orders[j]) \/ LegalAtOwnStep(power_orders[j])

\* C10: in a list without builds, an order that cannot be resolved even
\* after the coastal fallback is dropped and the sample stays valid: when
\* every other order is a legal candidate of the step of its own location,
\* the result is valid = true with the labels of those other orders,
\* whichever location the unresolvable order is for.
C10_UnresolvableOrderIsDropped ==
    (Called /\ DroppedOrderCase) =>
        /\ labels.err = "none"
        /\ labels.valid
        /\ NonSentinel(labels.y_actions) = PositionsInLocOrder(ResolvedIds)

----------------------------------------------------------------------------
(* Properties of the candidate table *)

\* get_valid_orders_impl has been called and has ended
TableCalled == inputs # NoInputs

\* the orderable locations of the turn
OrderableLocs == {turn.all_orderable_locations[j] : j \in DOMAIN turn.all_orderable_locations}

\* the possible orders of a location of the turn, without WAIVE
Candidates(loc) ==
    {PossibleOrders(turn.kind)[loc][j] : j \in DOMAIN PossibleOrders(turn.kind)[loc]} \ {WAIVE}

\* the entries of a step that are real ids
RealIds(row) == SelectSeq(row, LAMBDA v : v # EOS_IDX)

RECURSIVE Binomial(_, _)
Binomial(m, n) ==
    IF n = 0 THEN 1
    ELSE IF m = 0 THEN 0
    ELSE Binomial(m - 1, n - 1) + Binomial(m - 1, n)

RECURSIVE Power(_, _)
Power(k, n) == IF n = 0 THEN 1 ELSE k * Power(k, n - 1)

\* every orderable location of the turn has k candidates
UniformCandidates(k) == \A loc \in OrderableLocs : Cardinality(Candidates(loc)) = k

\* the ids of the combined strings: one for every set of n locations and
\* every choice of one candidate at each location of the set
CombinationIds(n) ==
    UNION {{ORDER_VOCABULARY_TO_IDX(Join(SortedStrings(SetToSeq({f[loc] : loc \in S})))) :
               f \in {g \in [S -> UNION {Candidates(loc) : loc \in S}] :
                         \A loc \in S : g[loc] \in Candidates(loc)}} :
           S \in {T \in SUBSET OrderableLocs : Cardinality(T) = n}}

\* C11: in a turn with n builds owed and m orderable locations of k
\* candidates each (WAIVE removed), with C(m,n)*k^n within MAX_VALID_LEN,
\* step 0 of the table holds exactly C(m,n)*k^n ids, those of the
\* combinations of n locations with one candidate each, and every other
\* step holds the sentinel only.
C11_BuildCombinations ==
    \A k \in 1 .. MAX_VALID_LEN :
        (/\ TableCalled
         /\ turn.n_builds > 0
         /\ UniformCandidates(k)
         /\ Binomial(Cardinality(OrderableLocs), turn.n_builds) * Power(k, turn.n_builds)
                <= MAX_VALID_LEN) =>
            /\ inputs.err = "none"
            /\ Len(RealIds(inputs.all_order_idxs[1])) =
                   Binomial(Cardinality(OrderableLocs), turn.n_builds) * Power(k, turn.n_builds)
            /\ {inputs.all_order_idxs[1][c] : c \in DOMAIN RealIds(inputs.all_order_idxs[1])}
                   = CombinationIds(turn.n_builds)
            /\ Cardinality(CombinationIds(turn.n_builds)) =
                   Binomial(Cardinality(OrderableLocs), turn.n_builds) * Power(k, turn.n_builds)
            /\ \A i \in 2 .. MAX_SEQ_LEN : inputs.all_order_idxs[i] = Filled(MAX_VALID_LEN)

\* a table built for two builds at two locations of two candidates each
C11_Witness ==
    /\ TableCalled
    /\ inputs.err = "none"
    /\ turn.n_builds = 2
    /\ Cardinality(OrderableLocs) = 2
    /\ UniformCandidates(2)
    /\ Len(RealIds(inputs.all_order_idxs[1])) = 4

\* C12: get_valid_orders_impl returns for every input, and what it returns
\* is a table of exactly MAX_SEQ_LEN steps of MAX_VALID_LEN candidates each:
\* candidates beyond MAX_VALID_LEN and locations beyond MAX_SEQ_LEN are cut
\* off.
C12_OverflowIsTruncated ==
    TableCalled =>
        /\ inputs.err = "none"
        /\ Len(inputs.all_order_idxs) = MAX_SEQ_LEN
        /\ \A i \in DOMAIN inputs.all_order_idxs : Len(inputs.all_order_idxs[i]) = MAX_VALID_LEN

\* the ids of the vocabulary
VocabularyIds == 0 .. (Len(ORDER_VOCABULARY) - 1)

\* the row is a run of ids of the vocabulary in ascending order followed by
\* the sentinel only
SortedThenPadded(row) ==
    \E r \in 0 .. Len(row) :
        /\ \A c \in 1 .. r : row[c] \in VocabularyIds
        /\ \A c, d \in 1 .. r : c < d => row[c] <= row[d]
        /\ \A c \in (r + 1) .. Len(row) : row[c] = EOS_IDX

\* C13: in a returned table, of a build, disband or ordinary turn, every
\* step is a run of vocabulary ids in ascending numeric order followed only
\* by EOS_IDX, and EOS_IDX is no id of the vocabulary.
C13_RowsSortedThenPadded ==
    /\ EOS_IDX \notin VocabularyIds
    /\ (TableCalled /\ inputs.err = "none") =>
           \A i \in DOMAIN inputs.all_order_idxs : SortedThenPadded(inputs.all_order_idxs[i])

\* a returned table with a step of two ids or more and padding behind them,
\* whose candidates the rules engine listed in another order than that of
\* their ids
C13_Witness ==
    /\ TableCalled
    /\ inputs.err = "none"
    /\ turn.kind = "M"
    /\ \E i \in DOMAIN inputs.all_order_idxs :
           /\ Len(RealIds(inputs.all_order_idxs[i])) >= 2
           /\ inputs.all_order_idxs[i][MAX_VALID_LEN] = EOS_IDX
    /\ \E loc \in OrderableLocs :
           LET listed == filter_orders_in_vocab(StripWaive(PossibleOrders(turn.kind), loc))
           IN  Len(listed) >= 2 /\ listed[1] > listed[2]

\* the entry of the step-assignment array for a location
StepOf(loc) == inputs.loc_idxs[CHOOSE k \in DOMAIN LOCS : LOCS[k] = loc]

\* the place in LOCS of the unit that is ordered at a location, coast included
UnitPlace(loc) ==
    CHOOSE k \in DOMAIN LOCS : LOCS[k] = At(StripWaive(PossibleOrders(turn.kind), loc)[1], 1)

\* the ids of the candidates of a location that the vocabulary resolves
ResolvedCandidates(loc) ==
    {smarter_order_index(o) : o \in Candidates(loc)} \ {KeyError}

\* C20: in a returned step-assignment array, in an ordinary turn the
\* orderable locations have the values 0..L-1 in canonical location order,
\* without repetition, L is the returned length and the number of orderable
\* locations, and step i holds the candidates of the location with value i;
\* in a build or disband turn every orderable location has -2; every other
\* location has -1; a player without orderable location gets all -1, a
\* table of EOS_IDX only and length 0.
C20_StepAssignmentFollowsDocstring ==
    (TableCalled /\ inputs.err = "none") =>
        /\ turn.n_builds = 0 =>
              /\ inputs.n = Cardinality(OrderableLocs)
              /\ {StepOf(loc) : loc \in OrderableLocs} = 0 .. (inputs.n - 1)
              /\ \A a, b \in OrderableLocs :
                     UnitPlace(a) < UnitPlace(b) => StepOf(a) < StepOf(b)
              /\ \A loc \in OrderableLocs :
                     LET row == RealIds(inputs.all_order_idxs[StepOf(loc) + 1])
                     IN  {row[c] : c \in DOMAIN row} = ResolvedCandidates(loc)
        /\ turn.n_builds # 0 => \A loc \in OrderableLocs : StepOf(loc) = -2
        /\ \A k \in DOMAIN LOCS : LOCS[k] \notin OrderableLocs => inputs.loc_idxs[k] = -1
        /\ OrderableLocs = {} =>
              /\ inputs.n = 0
              /\ \A i \in DOMAIN inputs.all_order_idxs :
                     RealIds(inputs.all_order_idxs[i]) = <<>>

\* an ordinary turn with three orderable locations, the last of them a
\* province whose fleet is on a coast, and a returned array with step 2 there
C20_Witness ==
    /\ TableCalled
    /\ inputs.err = "none"
    /\ turn.n_builds = 0
    /\ Cardinality(OrderableLocs) = 3
    /\ StepOf("SPA") = 2
    /\ StepOf("BRE") = 0
    /\ LOCS[UnitPlace("SPA")] = "SPA/SC"

\* the ids of the candidates of all orderable locations of the turn that the
\* vocabulary resolves
AllResolvedCandidates == UNION {ResolvedCandidates(loc) : loc \in OrderableLocs}

\* a step that holds exactly the given ids, ascending, and then only EOS_IDX
HoldsAscending(row, ids) ==
    /\ \A c \in 1 .. Cardinality(ids) : row[c] \in ids
    /\ \A c, d \in 1 .. Cardinality(ids) : c < d => row[c] < row[d]
    /\ \A c \in (Cardinality(ids) + 1) .. Len(row) : row[c] = EOS_IDX

\* C22: in a turn with d disbands owed, get_valid_orders_impl returns d as
\* the step count and a table whose first d steps each hold the ascending
\* list of the ids of the single candidate orders of all the player's
\* orderable locations that are in the vocabulary, candidates outside the
\* vocabulary being dropped, and whose later steps hold only EOS_IDX.
C22_DisbandsEnumerated ==
    (TableCalled /\ turn.n_builds < 0) =>
        /\ inputs.err = "none"
        /\ inputs.n = -turn.n_builds
        /\ \A i \in DOMAIN inputs.all_order_idxs :
               IF i <= -turn.n_builds
               THEN HoldsAscending(inputs.all_order_idxs[i], AllResolvedCandidates)
               ELSE RealIds(inputs.all_order_idxs[i]) = <<>>

\* two disbands owed by a player with three units, one of which has a
\* disband order that is not in the vocabulary
C22_Witness ==
    /\ TableCalled
    /\ inputs.err = "none"
    /\ turn.n_builds = -2
    /\ OrderableLocs = {"BRE", "PAR", "SPA"}
    /\ ResolvedCandidates("PAR") = {}
    /\ Len(RealIds(inputs.all_order_idxs[2])) = 2
    /\ inputs.all_order_idxs[1] = inputs.all_order_idxs[2]

----------------------------------------------------------------------------
(* The vocabulary lookups on their own *)

\* the strings a caller looks up: keys, with and without a coast; strings
\* that are keys only without their coast; strings that are no key either way
LookupStrings ==
    {<<"A", "MAR", "H">>,
     <<"F", "SPA/SC", "H">>,
     <<"A", "MAR", "S", "F", "SPA/SC">>,
     <<"A", "MAR", "S", "F", "SPA/NC">>,
     <<"F", "BRE", "-", "MOS">>,
     <<"F", "SPA/SC", "-", "MOS">>,
     WAIVE}

InitLookup ==
    /\ lookup_orders \in UNION {[1 .. n -> LookupStrings] : n \in 0 .. MaxOrders}
    /\ lookup_out = NoLookupOut
    /\ NoDatasets
    /\ NoEncoder
    /\ NoScores
    /\ NoPhase
    /\ NoLauncher
    /\ NoReader

\* smarter_order_index(order) for one of the caller's strings; a KeyError is
\* the caller's to handle
SmarterOrderIndex ==
    /\ lookup_out = NoLookupOut
    /\ \E j \in DOMAIN lookup_orders :
           lookup_out' = [op |-> "smarter_order_index", order |-> lookup_orders[j],
                          idx |-> smarter_order_index(lookup_orders[j]),
                          orders |-> <<>>, idxs |-> <<>>]
    /\ UNCHANGED <<self, pc, encoded_game_tuples, ret, datasets, merged, encoder, lookup_orders, scorer, phaser, launcher, reader>>

\* filter_orders_in_vocab(orders) for the caller's list
FilterOrdersInVocab ==
    /\ lookup_out = NoLookupOut
    /\ lookup_out' = [op |-> "filter_orders_in_vocab", order |-> <<>>, idx |-> -1,
                      orders |-> filter_orders_in_vocab_ret(lookup_orders),
                      idxs |-> filter_orders_in_vocab(lookup_orders)]
    /\ UNCHANGED <<self, pc, encoded_game_tuples, ret, datasets, merged, encoder, lookup_orders, scorer, phaser, launcher, reader>>

NextLookup == SmarterOrderIndex \/ FilterOrdersInVocab

SpecLookup == InitLookup /\ [][NextLookup]_vars

\* the string without its coastal suffixes
WithoutCoasts(order) ==
    [j \in DOMAIN order |->
        IF order[j] \in {"SPA/NC", "SPA/SC"} THEN "SPA" ELSE order[j]]

\* the position of a key in the vocabulary, from 0
IdOf(key) == (CHOOSE i \in DOMAIN ORDER_VOCABULARY : ORDER_VOCABULARY[i] = key) - 1

\* what a lookup of the string is to give
Resolution(order) ==
    IF InVocabulary(order) THEN IdOf(order)
    ELSE IF InVocabulary(WithoutCoasts(order)) THEN IdOf(WithoutCoasts(order))
    ELSE KeyError

\* C14: smarter_order_index gives the id of the string when the string is a
\* key, otherwise the id of the string without its coastal suffixes when
\* that is a key, otherwise a KeyError that reaches the caller;
\* filter_orders_in_vocab keeps the strings that resolve, with these ids.
C14_LookupWithCoastalFallback ==
    /\ lookup_out.op = "smarter_order_index" => lookup_out.idx = Resolution(lookup_out.order)
    /\ lookup_out.op = "filter_orders_in_vocab" =>
           /\ lookup_out.orders = SelectSeq(lookup_orders, LAMBDA o : Resolution(o) # KeyError)
           /\ lookup_out.idxs = [j \in DOMAIN lookup_out.orders |-> Resolution(lookup_out.orders[j])]

\* a lookup of a string that is a key only without its coast
C14_Witness ==
    /\ lookup_out.op = "smarter_order_index"
    /\ ~InVocabulary(lookup_out.order)
    /\ lookup_out.idx # KeyError

----------------------------------------------------------------------------
(* encode_weighted_sos_scores: the score target of one turn *)

(* Numbers are exact: the decay is value_decay_alpha / AlphaDen and weights  *)
(* are counted in units of Unit(phases), a power of AlphaDen high enough for *)
(* every product of the loop to be a whole number of units.  Square scores   *)
(* are counted in halves.                                                    *)

\* the years a match lasts at most
MaxYears == 2
\* the denominator of the decays
AlphaDen == 4

\* the phases of a year in the order of play; the name of a phase is its
\* season letter and its year
Seasons == <<"S", "F", "W">>

\* the phase names of the years 1 .. MaxYears in the order of play
Calendar == [j \in 1 .. (3 * MaxYears) |-> <<Seasons[((j - 1) % 3) + 1], ((j - 1) \div 3) + 1>>]

\* square scores of the seven players, in halves
ScoreVectors ==
    {[p \in POWERS |-> IF p = 0 THEN 2 ELSE 0],
     [p \in POWERS |-> IF p \in {1, 2} THEN 1 ELSE 0]}

\* the square scores of the state of a phase
ScoreTracks ==
    {[name \in {Calendar[j] : j \in DOMAIN Calendar} |-> [p \in POWERS |-> IF p = 0 THEN 2 ELSE 0]],
     [name \in {Calendar[j] : j \in DOMAIN Calendar} |->
         IF name[2] % 2 = 1 THEN [p \in POWERS |-> IF p = 0 THEN 2 ELSE 0]
         ELSE [p \in POWERS |-> IF p \in {1, 2} THEN 1 ELSE 0]]}

\* game.get_phase_history(): the phases played, a year's winter adjustment
\* being absent when nobody had to adjust
Histories ==
    {SelectSeq([j \in 1 .. n |-> [name |-> Calendar[j], square_score |-> track[Calendar[j]]]],
               LAMBDA ph : ~(ph.name[1] = "W" /\ ph.name[2] \in skipped)) :
        n \in 1 .. Len(Calendar), skipped \in SUBSET (1 .. MaxYears), track \in ScoreTracks}

\* int(phase.name[1:-1])
YearOf(name) == name[2]

\* lines 598-601: the name of the last phase of every year
end_of_year_phases(phases) ==
    {phases[j].name : j \in {i \in DOMAIN phases :
        \A k \in DOMAIN phases : k > i => YearOf(phases[k].name) # YearOf(phases[i].name)}}

\* 1.0 in units
Unit(phases) == Power(AlphaDen, Len(phases) + 1)

\* lines 605-607 with the slice of line 605 starting at phase_idx: the start
\* phase is consumed as well
Consumed_from_start(phases, phase_idx) ==
    SelectSeq(SubSeq(phases, phase_idx + 1, Len(phases)),
              LAMBDA ph : ph.name \in end_of_year_phases(phases))

\* lines 605-607: the phases after phase_idx the loop does not skip
Consumed(phases, phase_idx) ==
    SelectSeq(SubSeq(phases, phase_idx + 2, Len(phases)),
              LAMBDA ph : ph.name \in end_of_year_phases(phases))

\* lines 604 and 621: the weight of the i-th phase the loop consumes
RECURSIVE WeightOf(_, _, _)
WeightOf(i, value_decay_alpha, one) ==
    IF i = 1 THEN one - (value_decay_alpha * one) \div AlphaDen
    ELSE (WeightOf(i - 1, value_decay_alpha, one) * value_decay_alpha) \div AlphaDen

\* line 620 left out after the first phase: only the first weight is taken off
Remaining_first(weights, one) ==
    IF weights = <<>> THEN one ELSE one - weights[1]

\* lines 603 and 620: remaining after the loop
Remaining(weights, one) == one - SumSeq(weights)

\* lines 619 and 625: the weighted sum of one player
RECURSIVE WeightedSum(_, _, _)
WeightedSum(weights, consumed, p) ==
    IF weights = <<>> THEN 0
    ELSE Head(weights) * Head(consumed).square_score[p]
         + WeightedSum(Tail(weights), Tail(consumed), p)

encode_weighted_sos_scores(game, phase_idx, value_decay_alpha) ==
    LET phases == game.phases
        one == Unit(phases)
    IN  IF phase_idx = Len(phases) - 1
        THEN [branch |-> "end of game", weights |-> <<>>, remaining |-> 0,
              y_final_scores |-> [p \in POWERS |-> one * At(phases, phase_idx).square_score[p]]]
        ELSE LET consumed == Consumed(phases, phase_idx)
                 weights == [i \in DOMAIN consumed |-> WeightOf(i, value_decay_alpha, one)]
                 remaining == Remaining(weights, one)
             IN  [branch |-> "weighted", weights |-> weights, remaining |-> remaining,
                  y_final_scores |-> [p \in POWERS |->
                      WeightedSum(weights, consumed, p) + remaining * game.final[p]]]

InitScores ==
    /\ score_game \in {[phases |-> h, phase_idx |-> i, value_decay_alpha |-> a, final |-> f] :
                          h \in Histories, i \in 0 .. (3 * MaxYears - 1),
                          a \in 0 .. AlphaDen, f \in ScoreVectors}
    /\ score_game.phase_idx < Len(score_game.phases)
    /\ score_out = NoScoreOut
    /\ NoDatasets
    /\ NoEncoder
    /\ NoLookup
    /\ NoPhase
    /\ NoLauncher
    /\ NoReader

\* encode_phase, line 366: the score target of the turn
EncodeWeightedSosScores ==
    /\ score_out = NoScoreOut
    /\ score_out' = encode_weighted_sos_scores(score_game, score_game.phase_idx,
                                               score_game.value_decay_alpha)
    /\ UNCHANGED <<self, pc, encoded_game_tuples, ret, datasets, merged, encoder,
                   resolver, score_game, phaser, launcher, reader>>

NextScores == EncodeWeightedSosScores

SpecScores == InitScores /\ [][NextScores]_vars

\* the phases after the start turn that are the last of their year
YearEndsAfterStart ==
    {j \in DOMAIN score_game.phases :
        /\ j > score_game.phase_idx + 1
        /\ \A k \in DOMAIN score_game.phases :
               k > j => score_game.phases[k].name[2] # score_game.phases[j].name[2]}

\* C15: for a decay in [0,1) and a start turn that is not the last turn, the
\* weights of the year-end turns after the start turn, one weight for each,
\* and the remaining mass given to the final square score sum to exactly 1.
C15_WeightsSumToOne ==
    (score_out.branch # "not called"
        /\ score_game.phase_idx # Len(score_game.phases) - 1) =>
        /\ Len(score_out.weights) = Cardinality(YearEndsAfterStart)
        /\ SumSeq(score_out.weights) + score_out.remaining = Unit(score_game.phases)

\* a start turn followed by two year-end turns, with a decay above 0
C15_Witness ==
    /\ score_out.branch = "weighted"
    /\ score_game.value_decay_alpha > 0
    /\ Len(score_out.weights) >= 2
    /\ score_out.weights[2] > 0

\* the rank, from 0, of a year-end turn among those after the start turn
RankOfYearEnd(j) == Cardinality({i \in YearEndsAfterStart : i < j})

\* (1 - alpha) * alpha^j in units, alpha being value_decay_alpha / AlphaDen
ReferenceWeight(j) ==
    (Unit(score_game.phases) \div Power(AlphaDen, j + 1))
        * (AlphaDen - score_game.value_decay_alpha) * Power(score_game.value_decay_alpha, j)

\* the reference's sum for a player over a set of year-end turns
RECURSIVE ReferenceSum(_, _)
ReferenceSum(S, p) ==
    IF S = {} THEN 0
    ELSE LET j == CHOOSE i \in S : TRUE
         IN  ReferenceWeight(RankOfYearEnd(j)) * score_game.phases[j].square_score[p]
             + ReferenceSum(S \ {j}, p)

\* the mass the year-end turns after the start turn leave
RECURSIVE ReferenceMass(_)
ReferenceMass(S) ==
    IF S = {} THEN Unit(score_game.phases)
    ELSE LET j == CHOOSE i \in S : TRUE
         IN  ReferenceMass(S \ {j}) - ReferenceWeight(RankOfYearEnd(j))

\* the reference value of a player's score target
Reference(p) ==
    IF score_game.phase_idx = Len(score_game.phases) - 1
    THEN Unit(score_game.phases) * score_game.phases[Len(score_game.phases)].square_score[p]
    ELSE ReferenceSum(YearEndsAfterStart, p)
         + ReferenceMass(YearEndsAfterStart) * score_game.final[p]

\* C21: encode_weighted_sos_scores gives, for the last turn, the square
\* score of that turn's state, and otherwise the sum over the year-end turns
\* strictly after the start turn, in order, of (1-alpha)*alpha^j times the
\* square score at the j-th of them, plus the remaining mass times the final
\* square score; with alpha = 1 that is the final square score alone.
C21_ScoresEqualReference ==
    score_out.branch # "not called" =>
        /\ \A p \in POWERS : score_out.y_final_scores[p] = Reference(p)
        /\ (score_game.value_decay_alpha = AlphaDen
               /\ score_game.phase_idx # Len(score_game.phases) - 1) =>
              \A p \in POWERS :
                  score_out.y_final_scores[p] = Unit(score_game.phases) * score_game.final[p]

\* a start turn that is itself the last turn of its year, with another
\* square score than the year-end turn that follows it, and a decay
\* strictly between 0 and 1
C21_Witness ==
    /\ score_out.branch = "weighted"
    /\ score_game.value_decay_alpha \in 1 .. (AlphaDen - 1)
    /\ YearEndsAfterStart # {}
    /\ At(score_game.phases, score_game.phase_idx).name
           \in end_of_year_phases(score_game.phases)
    /\ \E j \in YearEndsAfterStart :
           score_game.phases[j].square_score
               # At(score_game.phases, score_game.phase_idx).square_score

----------------------------------------------------------------------------
(* encode_phase: the labels and the validity mask of the seven players *)

\* only_with_min_final_score as encode_game has it by default
MinFinalScore == 7

\* o.endswith(" H")
EndsWithH(order) == Len(order) >= 2 /\ order[Len(order)] = "H"

\* lines 391-393: the sample is of holds only and holds are excluded
ExcludedHolds(orders, exclude_n_holds) ==
    /\ 0 <= exclude_n_holds
    /\ exclude_n_holds <= Len(orders)
    /\ \A j \in DOMAIN orders : EndsWithH(orders[j])

\* line 400 without the test: every label array passes
HasLabels_always(y_actions_of_power) == TRUE

\* line 400: every label array of the player has an entry that is not padding
HasLabels(y_actions_of_power) ==
    \A n \in DOMAIN y_actions_of_power :
        \E i \in DOMAIN y_actions_of_power[n] : y_actions_of_power[n][i] # EOS_IDX

\* max(final_score.values())
MaxScore(final_score) == CHOOSE v \in {final_score[q] : q \in POWERS} :
                             \A q \in POWERS : final_score[q] <= v

\* encode_phase, lines 363 and 368-415
encode_phase_actions(game) ==
    LET table(q) == get_valid_orders_impl(game.players[q].turn.listed,
                                          PossibleOrders(game.players[q].turn.kind),
                                          game.players[q].turn.all_orderable_locations,
                                          game.players[q].turn.n_builds)
        samples(q) == game.players[q].samples
        encoded(q) == LET x_possible_actions == table(q).all_order_idxs
                      IN  [n \in DOMAIN samples(q) |->
                              encode_power_actions(samples(q)[n], x_possible_actions)]
        valid(q) == LET encoded_power_actions_lst == encoded(q)
                    IN  [n \in DOMAIN samples(q) |->
                            encoded_power_actions_lst[n].valid
                                /\ ~ExcludedHolds(samples(q)[n], game.exclude_n_holds)]
        y_actions(q) == IF samples(q) = <<>>
                        THEN [n \in 1 .. game.n_cf_agent_samples |-> Filled(MAX_SEQ_LEN)]
                        ELSE LET encoded_power_actions_lst == encoded(q)
                             IN  [n \in DOMAIN samples(q) |-> encoded_power_actions_lst[n].y_actions]
        after_samples == {q \in game.input_valid_power_idxs :
                             samples(q) # <<>> /\ \A n \in DOMAIN samples(q) : valid(q)[n]}
        with_labels == {q \in after_samples : HasLabels(y_actions(q))}
        with_score ==
            IF game.only_with_min_final_score # NoneNum
               /\ MaxScore(game.final_score) >= game.only_with_min_final_score
            THEN {q \in with_labels : game.final_score[q] >= game.only_with_min_final_score}
            ELSE with_labels
    IN  IF \E q \in POWERS : table(q).err # "none"
        THEN [err |-> (CHOOSE e \in {table(q).err : q \in POWERS} : e # "none"),
              y_actions |-> <<>>, valid_power_idxs |-> {}, valids |-> <<>>]
        ELSE IF \E q \in POWERS : \E n \in DOMAIN samples(q) : encoded(q)[n].err # "none"
        THEN [err |-> "AssertionError",
              y_actions |-> <<>>, valid_power_idxs |-> {}, valids |-> <<>>]
        ELSE [err |-> "none", y_actions |-> [q \in POWERS |-> y_actions(q)],
              valid_power_idxs |-> with_score,
              valids |-> [q \in POWERS |-> valid(q)]]

\* the turns of a player of the phase: a movement phase with units at none,
\* one or both of BRE and SPA
PhaseTurns ==
    {[listed |-> TRUE, kind |-> "M", all_orderable_locations |-> SetToSeq(S), n_builds |-> 0] :
        S \in SUBSET {"BRE", "SPA"}}

\* the order lists of a player of the phase
PhaseOrderLists ==
    UNION {[1 .. n -> {<<"F", "BRE", "-", "MAO">>, <<"F", "SPA/SC", "-", "MAO">>, <<"F", "BRE", "H">>}] :
              n \in {0, 1, 2}}

\* the players that act in the turns of the model
Actors == {0, 3}

\* what the other players do: nothing, or one of them holds its one unit
Bystander == [turn |-> [listed |-> TRUE, kind |-> "M",
                        all_orderable_locations |-> <<"BRE">>, n_builds |-> 0],
              orders |-> <<>>]
Holder == [turn |-> [listed |-> TRUE, kind |-> "M",
                     all_orderable_locations |-> <<"MAR">>, n_builds |-> 0],
           orders |-> <<<<"A", "MAR", "H">>>>]

\* the order samples of a player: the recorded orders without a
\* counterfactual agent (lines 373-374), else n_cf_agent_samples samples of
\* the agent, or none (lines 495-499)
Samples(orders, second, cf_agent, n_cf_agent_samples, none) ==
    IF ~cf_agent THEN <<orders>>
    ELSE IF none THEN <<>>
    ELSE IF n_cf_agent_samples = 1 THEN <<orders>>
    ELSE <<orders, second>>

\* the final supply-centre counts: nobody reaches MinFinalScore, or player 0
\* alone does
FinalScores ==
    {[q \in POWERS |-> 3], [q \in POWERS |-> IF q = 0 THEN MinFinalScore ELSE 3]}

PhaseGames ==
    {[called |-> TRUE,
      actor |-> x,
      players |-> [q \in POWERS |->
          IF q = x
          THEN [turn |-> t, samples |-> Samples(l, l2, m[1], m[2], m[3])]
          ELSE IF q = (x + 1) % NumPowers
          THEN [turn |-> o.turn, samples |-> Samples(o.orders, o.orders, m[1], m[2], FALSE)]
          ELSE [turn |-> Bystander.turn,
                samples |-> Samples(Bystander.orders, Bystander.orders, m[1], m[2], FALSE)]],
      cf_agent |-> m[1],
      n_cf_agent_samples |-> m[2],
      input_valid_power_idxs |-> iv,
      exclude_n_holds |-> h,
      only_with_min_final_score |-> ms[1],
      final_score |-> ms[2]] :
        x \in Actors, t \in PhaseTurns, l \in PhaseOrderLists,
        l2 \in {<<>>, <<<<"F", "BRE", "-", "MAO">>>>},
        m \in {<<FALSE, 1, FALSE>>, <<TRUE, 1, FALSE>>, <<TRUE, 1, TRUE>>, <<TRUE, 2, FALSE>>},
        o \in {Bystander, Holder},
        iv \in {POWERS, POWERS \ {0}},
        h \in {-1, 1},
        ms \in ({NoneNum, MinFinalScore} \X FinalScores)}

InitPhase ==
    /\ phase_game \in PhaseGames
    /\ phase_out = NoPhaseOut
    /\ NoDatasets
    /\ NoEncoder
    /\ NoLookup
    /\ NoScores
    /\ NoLauncher
    /\ NoReader

\* encode_phase for the turn
EncodePhase ==
    /\ phase_out = NoPhaseOut
    /\ phase_out' = encode_phase_actions(phase_game)
    /\ UNCHANGED <<self, pc, encoded_game_tuples, ret, datasets, merged, encoder,
                   resolver, scorer, phase_game, launcher, reader>>

NextPhase == EncodePhase

SpecPhase == InitPhase /\ [][NextPhase]_vars

----------------------------------------------------------------------------
(* Properties of encode_phase *)

PhaseCalled == phase_out # NoPhaseOut

\* the orders the acting player's record holds
ActorOrders == phase_game.players[phase_game.actor].samples[1]

\* the acting player's orderable locations
ActorLocs ==
    {phase_game.players[phase_game.actor].turn.all_orderable_locations[j] :
        j \in DOMAIN phase_game.players[phase_game.actor].turn.all_orderable_locations}

\* the acting player's orderable location the order is a legal order of, if any
LegalAt(order) ==
    {loc \in ActorLocs : \E j \in DOMAIN PossibleOrders("M")[loc] :
                             PossibleOrders("M")[loc][j] = order}

\* the ids of the legal orders of a location that are in the vocabulary
IdsAt(loc) ==
    {Resolution(PossibleOrders("M")[loc][j]) : j \in DOMAIN PossibleOrders("M")[loc]} \ {KeyError}

\* A one-turn match without counterfactual agent in which the acting player
\* issues one legal move order and nobody else issues any, every player
\* being a priori included and the acting player passing the final-score
\* filter.
OneMoveCase ==
    /\ PhaseCalled
    /\ ~phase_game.cf_agent
    /\ Len(ActorOrders) = 1
    /\ ActorOrders[1][3] = "-"
    /\ LegalAt(ActorOrders[1]) # {}
    /\ \A q \in POWERS \ {phase_game.actor} : phase_game.players[q].samples = <<<<>>>>
    /\ phase_game.input_valid_power_idxs = POWERS
    /\ \/ phase_game.only_with_min_final_score = NoneNum
       \/ \A q \in POWERS : phase_game.final_score[q] < phase_game.only_with_min_final_score
       \/ phase_game.final_score[phase_game.actor] >= phase_game.only_with_min_final_score

\* C16: in a one-turn match in which player X issues one legal move order
\* and the other players none, the mask is true at X and false elsewhere and
\* the first entry of X's label array is the position of the order among the
\* candidates of its location.
C16_OneMoveEndToEnd ==
    OneMoveCase =>
        /\ phase_out.err = "none"
        /\ phase_out.valid_power_idxs = {phase_game.actor}
        /\ \A loc \in LegalAt(ActorOrders[1]) :
               phase_out.y_actions[phase_game.actor][1][1] =
                   Cardinality({i \in IdsAt(loc) : i < Resolution(ActorOrders[1])})

MODES == {"gentle_start", "start_restart", "start_continue", "restart", "dryrun"}
CalledModes == MODES \cup {"start"}

\* LOCAL_JOB_ID, line 44; the content of the job-id file is "none" (no file),
\* LOCAL_JOB_ID or the id of a Slurm job
LOCAL_JOB_ID == "local"
SLURM_JOB_ID == "4242"
JobIds == {"none", LOCAL_JOB_ID, SLURM_JOB_ID}

\* the states of the experiment folder: the two files live inside the folder
ExpDirs ==
    {d \in [folder : BOOLEAN, job_id : JobIds, result : BOOLEAN] :
        (d.job_id # "none" \/ d.result) => d.folder}

\* get_all_runing_job_ids, lines 157-161: the queue is read once and cached
get_all_runing_job_ids(cache, queue) ==
    IF cache = "unset" THEN (IF queue THEN "with" ELSE "without") ELSE cache

\* whether get_status reaches the third operand of its `and`, line 229
ReadsQueue(dir) == dir.job_id # "none" /\ dir.job_id # LOCAL_JOB_ID

\* the cache after get_status
CacheAfter(dir, cache, queue) ==
    IF ReadsQueue(dir) THEN get_all_runing_job_ids(cache, queue) ELSE cache

\* ExperimentDir.get_status, lines 219-233
get_status(dir, cache, queue) ==
    IF dir.job_id = "none" THEN "NOT_STARTED"
    ELSE IF ReadsQueue(dir) /\ get_all_runing_job_ids(cache, queue) = "with" THEN "RUNNING"
    ELSE IF dir.result THEN "DONE"
    ELSE "DEAD"

\* is_running, is_done and is_started, lines 235-242, on the status they read
is_running(status) == status = "RUNNING"
is_done(status) == status = "DONE"
is_started_running(status) == status = "RUNNING"
is_started(status) == status # "NOT_STARTED"

\* handle_dst is called with a mode, lines 368-389: where the mode leads first
CallHandleDst ==
    /\ hd.pc = "idle"
    /\ \E mode \in CalledModes :
        hd' = [hd EXCEPT
                 !.mode = mode,
                 !.seen = get_status(exp_dir, slurm_cache, squeue),
                 !.before = exp_dir,
                 !.need_run = (mode # "dryrun"),
                 !.pc = CASE mode = "gentle_start" -> "is_started"
                          [] mode = "start_restart" -> "is_running"
                          [] mode = "start_continue" -> "is_running"
                          [] mode = "restart" -> "kill_and_prune"
                          [] mode = "dryrun" -> "returned"
                          [] OTHER -> "raised"]
    /\ UNCHANGED <<self, pc, encoded_game_tuples, ret, datasets, merged, encoder,
                   resolver, scorer, phaser, reader, exp_dir, squeue, slurm_cache>>

\* gentle_start, line 370: exp_handle.is_started()
IsStarted ==
    /\ hd.pc = "is_started"
    /\ hd' = [hd EXCEPT !.pc = IF is_started(get_status(exp_dir, slurm_cache, squeue))
                               THEN "logging" ELSE "returned"]
    /\ slurm_cache' = CacheAfter(exp_dir, slurm_cache, squeue)
    /\ UNCHANGED <<self, pc, encoded_game_tuples, ret, datasets, merged, encoder,
                   resolver, scorer, phaser, reader, exp_dir, squeue>>

\* start_restart and start_continue, lines 374 and 380: exp_handle.is_running()
IsRunning ==
    /\ hd.pc = "is_running"
    /\ hd' = [hd EXCEPT !.pc = IF is_running(get_status(exp_dir, slurm_cache, squeue))
                               THEN "logging" ELSE "is_done"]
    /\ slurm_cache' = CacheAfter(exp_dir, slurm_cache, squeue)
    /\ UNCHANGED <<self, pc, encoded_game_tuples, ret, datasets, merged, encoder,
                   resolver, scorer, phaser, reader, exp_dir, squeue>>

\* start_restart and start_continue, lines 374 and 380: `or exp_handle.is_done()`
IsDone ==
    /\ hd.pc = "is_done"
    /\ hd' = [hd EXCEPT !.pc = IF is_done(get_status(exp_dir, slurm_cache, squeue))
                               THEN "logging"
                               ELSE IF hd.mode = "start_restart" THEN "not_is_done"
                               ELSE "returned"]
    /\ slurm_cache' = CacheAfter(exp_dir, slurm_cache, squeue)
    /\ UNCHANGED <<self, pc, encoded_game_tuples, ret, datasets, merged, encoder,
                   resolver, scorer, phaser, reader, exp_dir, squeue>>

\* start_restart, line 377: `elif not exp_handle.is_done()`
NotIsDone ==
    /\ hd.pc = "not_is_done"
    /\ hd' = [hd EXCEPT !.pc = IF ~is_done(get_status(exp_dir, slurm_cache, squeue))
                               THEN "kill_and_prune" ELSE "returned"]
    /\ slurm_cache' = CacheAfter(exp_dir, slurm_cache, squeue)
    /\ UNCHANGED <<self, pc, encoded_game_tuples, ret, datasets, merged, encoder,
                   resolver, scorer, phaser, reader, exp_dir, squeue>>

\* lines 371-372, 375-376 and 381-382: the status is logged and need_run is False
LogStatus ==
    /\ hd.pc = "logging"
    /\ hd' = [hd EXCEPT !.pc = "returned", !.need_run = FALSE]
    /\ slurm_cache' = CacheAfter(exp_dir, slurm_cache, squeue)
    /\ UNCHANGED <<self, pc, encoded_game_tuples, ret, datasets, merged, encoder,
                   resolver, scorer, phaser, reader, exp_dir, squeue>>

\* ExperimentDir.kill_and_prune, lines 244-262, called at lines 378 and 384:
\* nothing without a folder; scancel for a Slurm job id; rmtree of the folder
KillAndPrune ==
    /\ hd.pc = "kill_and_prune"
    /\ IF exp_dir.folder
       THEN /\ exp_dir' = NoExpDir
            /\ squeue' = IF ReadsQueue(exp_dir) THEN FALSE ELSE squeue
            /\ hd' = [hd EXCEPT !.pc = "returned", !.pruned = TRUE,
                                !.prune_status = get_status(exp_dir, slurm_cache, squeue)]
       ELSE /\ hd' = [hd EXCEPT !.pc = "returned"]
            /\ UNCHANGED <<exp_dir, squeue>>
    /\ UNCHANGED <<self, pc, encoded_game_tuples, ret, datasets, merged, encoder,
                   resolver, scorer, phaser, reader, slurm_cache>>

\* the call is marked when something else changes the folder or the queue
\* after the call has begun
Disturbed == [hd EXCEPT !.stable = IF hd.pc = "idle" THEN hd.stable ELSE FALSE]

\* another launcher starts the experiment: save_job_id, lines 214-217, with the
\* id of a submitted job or, line 425, with LOCAL_JOB_ID
JobStarts ==
    /\ exp_dir.job_id = "none"
    /\ \E id \in {LOCAL_JOB_ID, SLURM_JOB_ID} :
        /\ exp_dir' = [exp_dir EXCEPT !.folder = TRUE, !.job_id = id]
        /\ squeue' = (id = SLURM_JOB_ID)
    /\ hd' = Disturbed
    /\ UNCHANGED <<self, pc, encoded_game_tuples, ret, datasets, merged, encoder,
                   resolver, scorer, phaser, reader, slurm_cache>>

\* the job writes its result file, lines 275-278, and leaves the queue
JobFinishes ==
    /\ exp_dir.job_id # "none"
    /\ ~exp_dir.result
    /\ exp_dir.job_id = SLURM_JOB_ID => squeue
    /\ exp_dir' = [exp_dir EXCEPT !.result = TRUE]
    /\ squeue' = FALSE
    /\ hd' = Disturbed
    /\ UNCHANGED <<self, pc, encoded_game_tuples, ret, datasets, merged, encoder,
                   resolver, scorer, phaser, reader, slurm_cache>>

\* the Slurm job leaves the queue without a result
JobDies ==
    /\ squeue
    /\ squeue' = FALSE
    /\ hd' = Disturbed
    /\ UNCHANGED <<self, pc, encoded_game_tuples, ret, datasets, merged, encoder,
                   resolver, scorer, phaser, reader, exp_dir, slurm_cache>>

\* an experiment folder in any state, a fresh process, handle_dst not yet called
InitLauncher ==
    /\ NoDatasets
    /\ NoEncoder
    /\ NoLookup
    /\ NoScores
    /\ NoPhase
    /\ NoReader
    /\ exp_dir \in ExpDirs
    /\ squeue \in (IF exp_dir.job_id = SLURM_JOB_ID THEN BOOLEAN ELSE {FALSE})
    /\ slurm_cache = "unset"
    /\ hd = NoHd

NextLauncher ==
    \/ CallHandleDst
    \/ IsStarted
    \/ IsRunning
    \/ IsDone
    \/ NotIsDone
    \/ LogStatus
    \/ KillAndPrune
    \/ JobStarts
    \/ JobFinishes
    \/ JobDies

SpecLauncher == InitLauncher /\ [][NextLauncher]_vars

\* ---------------------------------------------------------------------------
\* Properties of handle_dst
\* ---------------------------------------------------------------------------

\* handle_dst has returned or raised, and nothing else touched the folder or
\* the queue during the call
QuietCall == hd.pc \in {"returned", "raised"} /\ hd.stable

\* need_run as the docstring of handle_dst gives it, lines 355-362
DocNeedRun(mode, status) ==
    CASE mode = "gentle_start" -> status = "NOT_STARTED"
      [] mode = "start_restart" -> status \in {"NOT_STARTED", "DEAD"}
      [] mode = "start_continue" -> status \in {"NOT_STARTED", "DEAD"}
      [] mode = "restart" -> TRUE
      [] OTHER -> FALSE

\* C18: for every mode and every status of the experiment at the call,
\* handle_dst returns need_run as its docstring says (gentle_start: true iff
\* NOT_STARTED; start_restart, start_continue: true iff NOT_STARTED or DEAD;
\* restart: true; dryrun: false), and any other mode raises ValueError.
C18_NeedRunFollowsDocstring ==
    QuietCall =>
        /\ (hd.pc = "raised") = (hd.mode \notin MODES)
        /\ hd.pc = "returned" => hd.need_run = DocNeedRun(hd.mode, hd.seen)

\* a started experiment without a live job was offered to gentle_start, which
\* declined to run it
C18_Witness ==
    /\ QuietCall
    /\ hd.mode = "gentle_start"
    /\ hd.seen = "DEAD"
    /\ ~hd.need_run

\* C19: handle_dst wipes the experiment folder only in mode restart, or in mode
\* start_restart when the status is DEAD; in every other case the folder, its
\* job-id file and its result file are as they were, also for a NOT_STARTED
\* experiment whose folder exists and when the status changes between checks.
C19_WipesOnlyDeadOrRestart ==
    /\ hd.pruned =>
          \/ hd.mode = "restart"
          \/ hd.mode = "start_restart" /\ hd.prune_status = "DEAD"
    /\ (QuietCall /\ ~hd.pruned) => exp_dir = hd.before

====
